---- MODULE Spec2Model ----
(***************************************************************************)
(* Model of the imputation engine of statistical_methods_library           *)
(* (imputation/engine.py, imputation/ratio_calculators.py).                *)
(*                                                                         *)
(* A data frame whose rows are unique on (ref, period, grouping) is a      *)
(* function from keys <<ref, period, grouping>> to a record of the other   *)
(* columns.  Decimal values are exact rationals <<n, d>> in lowest terms;  *)
(* the SQL null is the pair NULL.  SQL arithmetic is null-propagating, SQL *)
(* aggregates skip nulls and a division by zero gives null.                *)
(***************************************************************************)
EXTENDS Integers, FiniteSets, Sequences, TLC

VARIABLES
    call,               \* the optional arguments of the call
    input,              \* input_df after validation: key -> [target, aux]
    back                \* back_data_df after validation: key -> [output, marker, aux]

\* ------------------------------------------------------------------------
\* Bounds of the model
\* ------------------------------------------------------------------------
NumRefs == 2
NumPeriods == 3
NumGroupings == 2
MaxTarget == 1
FirstYear == 1
NumBackRunPeriods == 2
MaxBackOutput == 1
Periodicity == 2
MaxWeightPeriodicityMultiplier == 2
MaxBackLink == 2
NumRatioRows == 2
MaxPeriodicity == 12
PeriodFirstYear == 1999
NumPeriodYears == 3

\* ------------------------------------------------------------------------
\* Decimal values with SQL null
\* ------------------------------------------------------------------------
NULL == <<0, 0>>

IsNull(a) == a[2] = 0

RECURSIVE Gcd(_, _)
Gcd(a, b) == IF b = 0 THEN a ELSE Gcd(b, a % b)

Norm(n, d) ==
    IF n = 0 THEN <<0, 1>>
    ELSE LET g == Gcd(n, d) IN <<n \div g, d \div g>>

Num(n) == <<n, 1>>

Mul(a, b) == IF IsNull(a) \/ IsNull(b) THEN NULL ELSE Norm(a[1] * b[1], a[2] * b[2])

Div(a, b) ==
    IF IsNull(a) \/ IsNull(b) \/ b[1] = 0 THEN NULL
    ELSE Norm(a[1] * b[2], a[2] * b[1])

Add(a, b) == Norm(a[1] * b[2] + b[1] * a[2], a[2] * b[2])

\* SQL '+': null when an operand is null
Plus(a, b) == IF IsNull(a) \/ IsNull(b) THEN NULL ELSE Add(a, b)

\* lit(Decimal(1)) - weight, for a weight in [0, 1]
OneMinus(w) == IF IsNull(w) THEN NULL ELSE Norm(w[2] - w[1], w[2])

\* SQL sum() of the column v (a function on the rows K): nulls are skipped
\* and the sum of no value at all is null.
RECURSIVE SqlSum(_, _)
SqlSum(K, v) ==
    IF K = {} THEN NULL
    ELSE LET k == CHOOSE x \in K : TRUE
             rest == SqlSum(K \ {k}, v)
         IN IF IsNull(v[k]) THEN rest
            ELSE IF IsNull(rest) THEN v[k]
            ELSE Add(v[k], rest)

\* SQL count(col): the number of rows whose value is not null.
SqlCount(K, v) == Num(Cardinality({k \in K : ~IsNull(v[k])}))

\* fillna(value, column)
FillNa(a, value) == IF IsNull(a) THEN value ELSE a

\* ------------------------------------------------------------------------
\* Markers (engine.py, class Marker); the null marker is NOMARKER
\* ------------------------------------------------------------------------
RESPONSE == "R"
FORWARD_IMPUTE_FROM_RESPONSE == "FIR"
BACKWARD_IMPUTE == "BI"
CONSTRUCTED == "C"
FORWARD_IMPUTE_FROM_CONSTRUCTION == "FIC"
NOMARKER == "null"
Markers == {RESPONSE, FORWARD_IMPUTE_FROM_RESPONSE, BACKWARD_IMPUTE, CONSTRUCTED,
            FORWARD_IMPUTE_FROM_CONSTRUCTION}

\* ------------------------------------------------------------------------
\* Period arithmetic: a period key is year * 100 + sub-period, the
\* sub-period in 1..periodicity
\* ------------------------------------------------------------------------
calculate_previous_period(period, periodicity) ==
    IF period % 100 <= 1 THEN (period \div 100 - 1) * 100 + periodicity
    ELSE period - 1

calculate_next_period(period, periodicity) ==
    IF period % 100 >= periodicity THEN (period \div 100 + 1) * 100 + 1
    ELSE period + 1

RECURSIVE NthPeriod(_)
NthPeriod(i) ==
    IF i = 0 THEN FirstYear * 100 + 1
    ELSE calculate_next_period(NthPeriod(i - 1), Periodicity)

Refs == 1 .. NumRefs
Groupings == 1 .. NumGroupings
InputPeriods == {NthPeriod(i) : i \in 1 .. NumPeriods}
BackPeriod == NthPeriod(0)

Ref(k) == k[1]
Period(k) == k[2]
Grouping(k) == k[3]

\* ------------------------------------------------------------------------
\* Input and back data tables
\* ------------------------------------------------------------------------
\* Boolean columns with SQL null
BTRUE == "true"
BFALSE == "false"
BNULL == "null"
SqlBool(b) == IF b THEN BTRUE ELSE BFALSE

\* Minimum of a non-empty set of period keys
MinOf(S) == CHOOSE x \in S : \A y \in S : x <= y

\* A row of the working table: every column the stages use; a column a
\* row does not have yet (or lacks after unionByName(allowMissingColumns))
\* is null.
WorkingRow(aux, output, marker, period) ==
    [aux |-> aux, output |-> output, marker |-> marker,
     previous_period |-> calculate_previous_period(period, Periodicity),
     next_period |-> calculate_next_period(period, Periodicity),
     forward |-> NULL, backward |-> NULL, construction |-> NULL,
     count_forward |-> NULL, count_backward |-> NULL, count_construction |-> NULL,
     default_forward |-> BNULL, default_backward |-> BNULL,
     default_construction |-> BNULL,
     link_inclusion_previous |-> BNULL, link_inclusion_current |-> BNULL,
     link_inclusion_next |-> BNULL,
     forward_unweighted |-> NULL, backward_unweighted |-> NULL,
     construction_unweighted |-> NULL]

\* Mutant of prepare_input: the marker condition without its negation, so
\* that RESPONSE goes to the rows without an output.
prepare_input_negated(inp) ==
    [k \in DOMAIN inp |->
        WorkingRow(inp[k].aux, inp[k].target,
                   IF IsNull(inp[k].target) THEN RESPONSE ELSE NOMARKER, Period(k))]

\* impute(): target renamed to output, marker RESPONSE where the output
\* is not null, previous_period and next_period added.
prepare_input(inp) ==
    [k \in DOMAIN inp |->
        WorkingRow(inp[k].aux, inp[k].target,
                   IF IsNull(inp[k].target) THEN NOMARKER ELSE RESPONSE, Period(k))]

\* prior_period_df: min(previous_period) over the input; 0 stands for the
\* null that min() gives on an empty input.
prior_period(inp) ==
    IF DOMAIN inp = {} THEN 0
    ELSE MinOf({calculate_previous_period(Period(k), Periodicity) : k \in DOMAIN inp})

\* Mutant of back_data_period_df: the filter without its period condition
back_data_any_period_df(inp, bk) ==
    LET K == {k \in DOMAIN bk : /\ bk[k].marker # NOMARKER
                                /\ bk[k].marker # BACKWARD_IMPUTE}
    IN [k \in K |-> WorkingRow(bk[k].aux, bk[k].output, bk[k].marker, Period(k))]

\* back_data_period_df: the back data rows of the prior period whose marker
\* is not BACKWARD_IMPUTE.
back_data_period_df(inp, bk) ==
    LET K == {k \in DOMAIN bk : /\ Period(k) = prior_period(inp)
                                /\ bk[k].marker # NOMARKER
                                /\ bk[k].marker # BACKWARD_IMPUTE}
    IN [k \in K |-> WorkingRow(bk[k].aux, bk[k].output, bk[k].marker, Period(k))]

\* back_data_period_df.filter(marker in ms)
back_data_marked(inp, bk, ms) ==
    LET b == back_data_period_df(inp, bk)
    IN [k \in {x \in DOMAIN b : b[x].marker \in ms} |-> b[k]]

\* df.unionByName(other, allowMissingColumns=True); the keys of other are
\* of the prior period, which no input row has.
unionByName(df1, other) ==
    [k \in DOMAIN df1 \cup DOMAIN other |-> IF k \in DOMAIN df1 THEN df1[k] ELSE other[k]]

\* prepared_df as calculate_ratios() finds it
prepared_df(inp, bk) ==
    unionByName(prepare_input(inp), back_data_marked(inp, bk, {RESPONSE}))

\* ------------------------------------------------------------------------
\* Optional arguments of impute(): link_filter, weight and
\* weight_periodicity_multiplier.  None is the Python None; a link filter
\* is the SQL expression the caller passes.
\* ------------------------------------------------------------------------
None == "None"

NoOptions ==
    [fn |-> "impute", link_filter |-> None, weight |-> NULL,
     weight_periodicity_multiplier |-> 0]

\* The value of a link filter expression on a row; a column the row does
\* not have is null, and so is a comparison with null.
LinkFilterValue(filter, target, aux) ==
    CASE filter = "aux != 1" -> IF IsNull(aux) THEN BNULL ELSE SqlBool(aux # Num(1))
      [] filter = "target != 0" -> IF IsNull(target) THEN BNULL ELSE SqlBool(target # Num(0))
      [] OTHER -> BTRUE

\* filtered_refs: the link filter evaluated on
\* input_df.unionByName(back_data_df, allowMissingColumns=True)
filtered_refs ==
    [k \in DOMAIN input \cup DOMAIN back |->
        IF k \in DOMAIN input
        THEN LinkFilterValue(call.link_filter, input[k].target, input[k].aux)
        ELSE LinkFilterValue(call.link_filter, NULL, back[k].aux)]

\* ------------------------------------------------------------------------
\* calculate_ratios (no caller-supplied links)
\* ------------------------------------------------------------------------
\* ratio_filter_df: the rows with an output and their match, which is true
\* without link filter
ratio_filter_df(prep) ==
    [k \in {x \in DOMAIN prep : ~IsNull(prep[x].output)} |->
        [output |-> prep[k].output, aux |-> prep[k].aux,
         previous_period |-> prep[k].previous_period,
         next_period |-> prep[k].next_period,
         match |-> IF call.link_filter = None THEN BTRUE ELSE filtered_refs[k]]]

\* ratio_calculation_df: current row left-joined with the row of the same
\* ref and grouping at previous_period and at next_period.
ratio_calculation_df(prep) ==
    LET rf == ratio_filter_df(prep)
        other(k, p) == <<Ref(k), p, Grouping(k)>>
        out(k) == IF k \in DOMAIN rf THEN rf[k].output ELSE NULL
        mat(k) == IF k \in DOMAIN rf THEN rf[k].match ELSE BNULL
    IN [k \in DOMAIN rf |->
        [aux |-> rf[k].aux,
         current_output |-> rf[k].output,
         link_inclusion_current |-> rf[k].match,
         next_output |-> out(other(k, rf[k].next_period)),
         link_inclusion_next |-> mat(other(k, rf[k].next_period)),
         previous_output |-> out(other(k, rf[k].previous_period)),
         link_inclusion_previous |-> mat(other(k, rf[k].previous_period))]]

GroupOf(k) == <<Period(k), Grouping(k)>>

\* df.filter(col("current.match")).groupBy("period", "grouping")
MatchedGroups(rc) == {GroupOf(k) : k \in {x \in DOMAIN rc : rc[x].link_inclusion_current = BTRUE}}
MatchedRows(rc, g) == {k \in DOMAIN rc : rc[k].link_inclusion_current = BTRUE /\ GroupOf(k) = g}

IsZero(a) == ~IsNull(a) /\ a[1] = 0

\* Mutant of ratio_of_means: the numerators without their CASE WHEN, so
\* that every current output is summed
ratio_of_means_unconditional(rc) ==
    [g \in MatchedGroups(rc) |->
        LET K == MatchedRows(rc, g)
            cur == [k \in K |-> rc[k].current_output]
            prev == [k \in K |-> rc[k].previous_output]
            next == [k \in K |-> rc[k].next_output]
        IN [forward |-> Div(SqlSum(K, cur), SqlSum(K, prev)),
            backward |-> Div(SqlSum(K, cur), SqlSum(K, next)),
            count_forward |-> SqlCount(K, prev),
            count_backward |-> SqlCount(K, next),
            default_forward |-> SqlBool(IsZero(FillNa(SqlSum(K, prev), Num(0)))),
            default_backward |-> SqlBool(IsZero(FillNa(SqlSum(K, next), Num(0))))]]

\* ratio_calculators.ratio_of_means: one row per (period, grouping).  The
\* default_* aggregates of lines 304-305 stand in the source without string
\* quotes; they are read as the SQL expressions they spell.
ratio_of_means(rc) ==
    [g \in MatchedGroups(rc) |->
        LET K == MatchedRows(rc, g)
            cur_if_prev == [k \in K |-> IF ~IsNull(rc[k].previous_output)
                                        THEN rc[k].current_output ELSE NULL]
            cur_if_next == [k \in K |-> IF ~IsNull(rc[k].next_output)
                                        THEN rc[k].current_output ELSE NULL]
            prev == [k \in K |-> rc[k].previous_output]
            next == [k \in K |-> rc[k].next_output]
        IN [forward |-> Div(SqlSum(K, cur_if_prev), SqlSum(K, prev)),
            backward |-> Div(SqlSum(K, cur_if_next), SqlSum(K, next)),
            count_forward |-> SqlCount(K, prev),
            count_backward |-> SqlCount(K, next),
            default_forward |-> SqlBool(IsZero(FillNa(SqlSum(K, prev), Num(0)))),
            default_backward |-> SqlBool(IsZero(FillNa(SqlSum(K, next), Num(0))))]]

\* Mutant of construction: the aggregates without filter(current.match)
construction_unfiltered(rc) ==
    [g \in {GroupOf(k) : k \in DOMAIN rc} |->
        LET K == {k \in DOMAIN rc : GroupOf(k) = g}
            cur == [k \in K |-> rc[k].current_output]
            aux == [k \in K |-> rc[k].aux]
        IN [construction |-> Div(SqlSum(K, cur), SqlSum(K, aux)),
            count_construction |-> SqlCount(K, aux),
            default_construction |-> SqlBool(IsZero(FillNa(SqlSum(K, aux), Num(0))))]]

\* ratio_calculators.construction: one row per (period, grouping); line 332
\* is read as the SQL expression it spells.
construction(rc) ==
    [g \in MatchedGroups(rc) |->
        LET K == MatchedRows(rc, g)
            cur == [k \in K |-> rc[k].current_output]
            aux == [k \in K |-> rc[k].aux]
        IN [construction |-> Div(SqlSum(K, cur), SqlSum(K, aux)),
            count_construction |-> SqlCount(K, aux),
            default_construction |-> SqlBool(IsZero(FillNa(SqlSum(K, aux), Num(0))))]]

\* fill_values of the two RatioCalculationResult: the only columns the
\* engine null-fills after the joins.
FillBool(b, value) == IF b = BNULL THEN value ELSE b

\* calculate_ratios(), up to the weighting: the calculators' rows
\* left-joined on (period, grouping), then fillna() for each entry of
\* fill_values, then with a link filter the link_inclusion columns of
\* ratio_calculation_df left-joined on the key.
calculate_ratios(prep) ==
    LET rc == ratio_calculation_df(prep)
        rom == ratio_of_means(rc)
        con == construction(rc)
        inclusion(k, c) == IF call.link_filter # None /\ k \in DOMAIN rc THEN rc[k][c] ELSE BNULL
    IN [k \in DOMAIN prep |->
        LET g == GroupOf(k)
            hit == g \in DOMAIN rom
        IN [prep[k] EXCEPT
            !.link_inclusion_previous = inclusion(k, "link_inclusion_previous"),
            !.link_inclusion_current = inclusion(k, "link_inclusion_current"),
            !.link_inclusion_next = inclusion(k, "link_inclusion_next"),
            !.forward = IF hit THEN rom[g].forward ELSE NULL,
            !.backward = IF hit THEN rom[g].backward ELSE NULL,
            !.count_forward = IF hit THEN rom[g].count_forward ELSE NULL,
            !.count_backward = IF hit THEN rom[g].count_backward ELSE NULL,
            !.default_forward = FillBool(IF hit THEN rom[g].default_forward ELSE BNULL, BTRUE),
            !.default_backward = FillBool(IF hit THEN rom[g].default_backward ELSE BNULL, BTRUE),
            !.construction = IF hit THEN con[g].construction ELSE NULL,
            !.count_construction =
                FillNa(IF hit THEN con[g].count_construction ELSE NULL, Num(0)),
            !.default_construction =
                FillBool(IF hit THEN con[g].default_construction ELSE BNULL, BTRUE)]]

\* ------------------------------------------------------------------------
\* calculate_ratios: the weighting (weight is not None)
\* ------------------------------------------------------------------------
UnweightedLinks(f, b, c) == [forward |-> f, backward |-> b, construction |-> c]

\* The rows of a (period, grouping) in the union of prepared_df and the
\* back data, as their three unweighted links
weighting_rows(prep, bk) ==
    [g \in {GroupOf(k) : k \in DOMAIN prep \cup DOMAIN bk} |->
        {UnweightedLinks(prep[k].forward, prep[k].backward, prep[k].construction) :
            k \in {x \in DOMAIN prep : GroupOf(x) = g}}
        \cup {UnweightedLinks(bk[k].forward_unweighted, bk[k].backward_unweighted,
                              bk[k].construction_unweighted) :
            k \in {x \in DOMAIN bk : GroupOf(x) = g}}]

\* weighting_df: groupBy(period, grouping).agg(first(...)).  first() takes
\* the row Spark meets first, which the union does not determine: every
\* choice of one row per group is a possible weighting_df.
RECURSIVE weighting_dfs(_)
weighting_dfs(rows) ==
    IF DOMAIN rows = {} THEN {[g \in {} |-> g]}
    ELSE LET g == CHOOSE x \in DOMAIN rows : TRUE
             rest == weighting_dfs([x \in DOMAIN rows \ {g} |-> rows[x]])
         IN {[x \in DOMAIN rows |-> IF x = g THEN c ELSE r[x]] : c \in rows[g], r \in rest}

\* calculate_weighted_link
calculate_weighted_link(weight, curr_link, prev_link) ==
    IF ~IsNull(prev_link)
    THEN Plus(Mul(weight, curr_link), Mul(OneMinus(weight), prev_link))
    ELSE curr_link

\* prepared_df after the weighting: curr left-joined with prev, the group
\* of the previous period at weight_periodicity, then joined with
\* prepared_df whose links are renamed *_unweighted
weighted_prepared_df(prep, weighting_df) ==
    LET weight_periodicity == call.weight_periodicity_multiplier * Periodicity
        nolinks == UnweightedLinks(NULL, NULL, NULL)
    IN [k \in DOMAIN prep |->
        LET curr == weighting_df[GroupOf(k)]
            pg == <<calculate_previous_period(Period(k), weight_periodicity), Grouping(k)>>
            prev == IF pg \in DOMAIN weighting_df THEN weighting_df[pg] ELSE nolinks
        IN [prep[k] EXCEPT
            !.forward = calculate_weighted_link(call.weight, curr.forward, prev.forward),
            !.backward = calculate_weighted_link(call.weight, curr.backward, prev.backward),
            !.construction =
                calculate_weighted_link(call.weight, curr.construction, prev.construction),
            !.forward_unweighted = prep[k].forward,
            !.backward_unweighted = prep[k].backward,
            !.construction_unweighted = prep[k].construction]]

\* ------------------------------------------------------------------------
\* impute_helper
\* ------------------------------------------------------------------------
HasNullOutput(d) == \E k \in DOMAIN d : IsNull(d[k].output)

\* Mutant of new_imputed_df: the filter without its negation
new_imputed_df_negated(d) ==
    [k \in {x \in DOMAIN d : IsNull(d[x].output)} |->
        [output |-> d[k].output, marker |-> d[k].marker]]

\* imputed_df when it is None: the rows of df with an output
new_imputed_df(d) ==
    [k \in {x \in DOMAIN d : ~IsNull(d[x].output)} |->
        [output |-> d[k].output, marker |-> d[k].marker]]

\* null_response_df when it is None: the rows without an output of the
\* (ref, grouping) combinations that have some output
new_null_response_df(d) ==
    LET ref_df == {<<Ref(k), Grouping(k)>> : k \in DOMAIN new_imputed_df(d)}
    IN [k \in {x \in DOMAIN d : IsNull(d[x].output) /\ <<Ref(x), Grouping(x)>> \in ref_df} |->
        [previous_period |-> d[k].previous_period, next_period |-> d[k].next_period,
         forward |-> d[k].forward, backward |-> d[k].backward]]

\* Mutant of other_key: other_period_col chosen the wrong way round
other_key_swapped(nul, k, direction) ==
    <<Ref(k), IF direction THEN nul[k].next_period ELSE nul[k].previous_period, Grouping(k)>>

\* The key a null-response row is joined to: same ref and grouping at
\* previous_period (forward) or next_period (backward)
other_key(nul, k, direction) ==
    <<Ref(k), IF direction THEN nul[k].previous_period ELSE nul[k].next_period, Grouping(k)>>

\* calculation_df of one pass of the while loop
calculation_df(imp, nul, link_col, marker, direction) ==
    [k \in {x \in DOMAIN nul : other_key(nul, x, direction) \in DOMAIN imp} |->
        [output |-> Mul(nul[k][link_col], imp[other_key(nul, k, direction)].output),
         marker |-> marker]]

\* imputed_df.union(calculation_df)
union_imputed(imp, calc) ==
    [k \in DOMAIN imp \cup DOMAIN calc |-> IF k \in DOMAIN imp THEN imp[k] ELSE calc[k]]

\* Mutant of leftanti: no row is removed
leftanti_none(nul, calc) == nul

\* null_response_df.join(calculation_df, ..., "leftanti")
leftanti(nul, calc) == [k \in DOMAIN nul \ DOMAIN calc |-> nul[k]]

\* df.drop("output", "marker").join(imputed_df, ..., "leftouter")
impute_result(d, imp) ==
    [k \in DOMAIN d |->
        [d[k] EXCEPT !.output = IF k \in DOMAIN imp THEN imp[k].output ELSE NULL,
                     !.marker = IF k \in DOMAIN imp THEN imp[k].marker ELSE NOMARKER]]

LinkCol(stage) == IF stage = "backward_impute" THEN "backward" ELSE "forward"
Direction(stage) == stage # "backward_impute"
MarkerOf(stage) ==
    CASE stage = "forward_impute_from_response" -> FORWARD_IMPUTE_FROM_RESPONSE
      [] stage = "backward_impute" -> BACKWARD_IMPUTE
      [] OTHER -> FORWARD_IMPUTE_FROM_CONSTRUCTION

\* The while loop of impute_helper run to its break: the caches it leaves
RECURSIVE impute_loop(_, _, _)
impute_loop(imp, nul, stage) ==
    LET calc == calculation_df(imp, nul, LinkCol(stage), MarkerOf(stage), Direction(stage))
    IN IF DOMAIN calc = {} THEN [imputed_df |-> imp, null_response_df |-> nul]
       ELSE impute_loop(union_imputed(imp, calc), leftanti(nul, calc), stage)

\* ------------------------------------------------------------------------
\* construct_values
\* ------------------------------------------------------------------------
\* The rows construction applies to: no output, and no row at all at the
\* previous period of the same ref and grouping (the leftanti join)
construction_keys(d) ==
    {k \in DOMAIN d : /\ IsNull(d[k].output)
                      /\ <<Ref(k), d[k].previous_period, Grouping(k)>> \notin DOMAIN d}

construct_values(d0, inp, bk) ==
    LET d == unionByName(d0, back_data_marked(inp, bk,
                               {CONSTRUCTED, FORWARD_IMPUTE_FROM_CONSTRUCTION}))
        C == construction_keys(d)
    IN [k \in DOMAIN d |->
        [d[k] EXCEPT
            !.output = IF IsNull(d[k].output)
                       THEN (IF k \in C THEN Mul(d[k].aux, d[k].construction) ELSE NULL)
                       ELSE d[k].output,
            !.marker = IF d[k].marker = NOMARKER
                       THEN (IF k \in C THEN CONSTRUCTED ELSE NOMARKER)
                       ELSE d[k].marker]]

\* ------------------------------------------------------------------------
\* Output assembly: the rows whose period is after prior_period
\* ------------------------------------------------------------------------
\* Mutant of output_rows: the join condition with <= for <
output_rows_inclusive(d, inp) ==
    LET prior == prior_period(inp)
    IN [k \in {x \in DOMAIN d : prior # 0 /\ prior <= Period(x)} |-> d[k]]

output_rows(d, inp) ==
    LET prior == prior_period(inp)
    IN [k \in {x \in DOMAIN d : prior # 0 /\ prior < Period(x)} |-> d[k]]

\* output_col_mapping: column alias -> name in the returned table, with the
\* default names and reference, period, grouping, target for the caller's
\* column names
output_col_mapping(c) ==
    [output |-> "imputed", marker |-> "imputation_marker",
     count_construction |-> "count_construction", count_forward |-> "count_forward",
     count_backward |-> "count_backward", default_construction |-> "default_construction",
     default_forward |-> "default_forward", default_backward |-> "default_backward",
     forward |-> "forward", backward |-> "backward", construction |-> "construction",
     ref |-> "reference", period |-> "period", grouping |-> "grouping", target |-> "target"]
    @@ (IF IsNull(c.weight) THEN <<>>
        ELSE [backward_unweighted |-> "backward_unweighted",
              forward_unweighted |-> "forward_unweighted",
              construction_unweighted |-> "construction_unweighted"])

\* df.columns after the stage loop that ended with the stage of index last:
\* the columns of prepared_df (target renamed to output), those joined by
\* calculate_ratios, and existing_marker, which construct_values leaves
df_columns(c, last) ==
    {"ref", "period", "grouping", "aux", "output", "marker", "previous_period", "next_period"}
    \cup {"forward", "backward", "count_forward", "count_backward", "default_forward",
          "default_backward", "construction", "count_construction", "default_construction"}
    \cup (IF c.link_filter = None THEN {}
          ELSE {"link_inclusion_previous", "link_inclusion_current", "link_inclusion_next"})
    \cup (IF IsNull(c.weight) THEN {}
          ELSE {"forward_unweighted", "backward_unweighted", "construction_unweighted"})
    \cup (IF last >= 3 THEN {"existing_marker"} ELSE {})

\* The columns of the returned table
returned_columns(c, last) ==
    {output_col_mapping(c)[k] : k \in DOMAIN output_col_mapping(c) \cap df_columns(c, last)}

\* ------------------------------------------------------------------------
\* The stage loop of impute()
\* ------------------------------------------------------------------------
Stages == <<"forward_impute_from_response", "backward_impute", "construct_values",
            "forward_impute_from_construction">>

\* Mutant of stage_input: forward_impute_from_response adds the constructed
\* back data rows as well
stage_input_constructed(d, stage, inp, bk) ==
    IF stage = "forward_impute_from_response"
    THEN unionByName(d, back_data_marked(inp, bk,
            {FORWARD_IMPUTE_FROM_RESPONSE, CONSTRUCTED, FORWARD_IMPUTE_FROM_CONSTRUCTION}))
    ELSE d

\* df as a stage function receives it: the back data rows the stage adds
stage_input(d, stage, inp, bk) ==
    IF stage = "forward_impute_from_response"
    THEN unionByName(d, back_data_marked(inp, bk, {FORWARD_IMPUTE_FROM_RESPONSE}))
    ELSE d

\* Whether the stage builds imputed_df and null_response_df afresh
fresh_cache(stage, cached) == stage = "forward_impute_from_construction" \/ ~cached

\* One whole run as a function of the input and the back data: the state
\* when the stage loop is left.
RECURSIVE run_stages(_, _, _, _, _, _)
run_stages(i, d, imp, nul, inp, bk) ==
    IF i > Len(Stages) THEN d
    ELSE LET stage == Stages[i]
             d1 == stage_input(d, stage, inp, bk)
             fresh == fresh_cache(stage, i > 1)
             c == IF stage = "construct_values" THEN [imputed_df |-> imp, null_response_df |-> nul]
                  ELSE impute_loop(IF fresh THEN new_imputed_df(d1) ELSE imp,
                                   IF fresh THEN new_null_response_df(d1) ELSE nul, stage)
             d2 == IF stage = "construct_values" THEN construct_values(d1, inp, bk)
                   ELSE impute_result(d1, c.imputed_df)
         IN IF ~HasNullOutput(d2) THEN d2
            ELSE run_stages(i + 1, d2, c.imputed_df, c.null_response_df, inp, bk)

impute(inp, bk) ==
    LET prep == calculate_ratios(prepared_df(inp, bk))
        empty == [k \in {} |-> k]
    IN output_rows(run_stages(1, prep, empty, empty, inp, bk), inp)

\* ------------------------------------------------------------------------
\* The run as a state machine
\* ------------------------------------------------------------------------
VARIABLES
    result,             \* what the call raised, and the value it returned
    pc,                 \* position of the run
    stage,              \* index in Stages of the stage being run
    df,                 \* prepared_df, then df of the stage loop
    cached,             \* imputed_df is not None
    imputed_df,         \* cache of impute_helper: the rows with an output
    null_response_df,   \* cache of impute_helper: the rows still without one
    out                 \* the data frame impute() returns

vars == <<call, result, input, back, pc, stage, df, cached, imputed_df, null_response_df, out>>

EmptyTable == [k \in {} |-> k]

\* Inputs: each ref has at most one row per period, in one grouping, with
\* a null or non-negative target; aux is never null.  Ref r is found in the
\* groupings 1 .. r only, which leaves refs that stay in one grouping, refs
\* that change grouping and groupings of one and of several refs.
Targets == {NULL} \cup {Num(v) : v \in 0 .. MaxTarget}
AuxOf(r) == Num(r)
GroupingsOf(r) == {g \in Groupings : g <= r}
Absent == [present |-> FALSE, grouping |-> 1, target |-> NULL]
CellOptions ==
    {Absent} \cup {[present |-> TRUE, grouping |-> g, target |-> t] : g \in Groupings, t \in Targets}

InputChoices(periods) ==
    {c \in [Refs \X periods -> CellOptions] :
        \A x \in Refs \X periods : c[x].present => c[x].grouping \in GroupingsOf(x[1])}

InputTable(c, periods) ==
    [k \in {x \in Refs \X periods \X Groupings :
                c[<<x[1], x[2]>>].present /\ c[<<x[1], x[2]>>].grouping = x[3]} |->
        [target |-> c[<<k[1], k[2]>>].target, aux |-> AuxOf(k[1])]]

\* Back data: the output of an earlier run, at most one row per ref, of
\* the period before the first input period, with an output and a marker.
BackOutputs == {Num(v) : v \in 1 .. MaxBackOutput}
BackAbsent == [present |-> FALSE, grouping |-> 1, output |-> NULL, marker |-> NOMARKER]
BackOptions ==
    {BackAbsent} \cup {[present |-> TRUE, grouping |-> g, output |-> o, marker |-> m] :
                            g \in Groupings, o \in BackOutputs, m \in Markers}

BackChoices ==
    {c \in [Refs -> BackOptions] :
        /\ \A r \in Refs : c[r].present => c[r].grouping \in GroupingsOf(r)
        /\ \E r \in Refs : c[r].present}

BackTable(c) ==
    [k \in {x \in Refs \X {BackPeriod} \X Groupings :
                c[x[1]].present /\ c[x[1]].grouping = x[3]} |->
        [output |-> c[k[1]].output, marker |-> c[k[1]].marker, aux |-> AuxOf(k[1])]]

BackRunPeriods == {NthPeriod(i) : i \in 1 .. NumBackRunPeriods}

InitRun ==
    /\ result = [raised |-> None, columns |-> {}]
    /\ pc = "prepare"
    /\ stage = 1
    /\ df = EmptyTable
    /\ cached = FALSE
    /\ imputed_df = EmptyTable
    /\ null_response_df = EmptyTable
    /\ out = EmptyTable

\* A run without back data
Init ==
    /\ call = NoOptions
    /\ \E c \in InputChoices(InputPeriods) : input = InputTable(c, InputPeriods)
    /\ back = EmptyTable
    /\ InitRun

\* A run with back data
InitBack ==
    /\ call = NoOptions
    /\ \E c \in InputChoices(BackRunPeriods) : input = InputTable(c, BackRunPeriods)
    /\ \E b \in BackChoices : back = BackTable(b)
    /\ InitRun

\* A run with a link filter, a weight or both, with or without back data
\* (whose rows then carry the unweighted links of the earlier run)
LinkFilters == {"aux != 1", "target != 0"}
Weights == {Norm(1, 2)}
FilterChoices == {[NoOptions EXCEPT !.link_filter = f] : f \in LinkFilters}
WeightChoices ==
    {[NoOptions EXCEPT !.weight = w, !.weight_periodicity_multiplier = m] :
        w \in Weights, m \in 1 .. MaxWeightPeriodicityMultiplier}

BackLinks == {NULL} \cup {Num(v) : v \in 2 .. MaxBackLink}
OptionBackAbsent == [present |-> FALSE, grouping |-> 1, output |-> NULL, link |-> NULL]
OptionBackOptions(links) ==
    {OptionBackAbsent} \cup {[present |-> TRUE, grouping |-> g, output |-> o, link |-> u] :
                                g \in Groupings, o \in BackOutputs, u \in links}

OptionBackChoices(links) ==
    {c \in [Refs -> OptionBackOptions(links)] :
        \A r \in Refs : c[r].present => c[r].grouping \in GroupingsOf(r)}

OptionBackTable(c) ==
    [k \in {x \in Refs \X {BackPeriod} \X Groupings :
                c[x[1]].present /\ c[x[1]].grouping = x[3]} |->
        [output |-> c[k[1]].output, marker |-> RESPONSE, aux |-> AuxOf(k[1]),
         forward_unweighted |-> c[k[1]].link, backward_unweighted |-> c[k[1]].link,
         construction_unweighted |-> c[k[1]].link]]

InitFilter ==
    /\ call \in FilterChoices
    /\ \E c \in InputChoices(BackRunPeriods) : input = InputTable(c, BackRunPeriods)
    /\ \E b \in OptionBackChoices({NULL}) : back = OptionBackTable(b)
    /\ InitRun

InitWeight ==
    /\ call \in WeightChoices
    /\ \E c \in InputChoices(BackRunPeriods) : input = InputTable(c, BackRunPeriods)
    /\ \E b \in OptionBackChoices(BackLinks) : back = OptionBackTable(b)
    /\ InitRun

\* The call ends with an exception
Raise(exception) ==
    /\ pc' = "raised"
    /\ result' = [raised |-> exception, columns |-> {}]

\* impute(), up to the call of calculate_ratios().  With a link filter,
\* filtered_refs is input_df.unionByName(back_data_df, ...), which raises
\* when back_data_df is None.
Prepare ==
    /\ pc = "prepare"
    /\ IF call.link_filter # None /\ DOMAIN back = {}
       THEN /\ Raise("AttributeError")
            /\ df' = df
       ELSE /\ df' = prepared_df(input, back)
            /\ pc' = "calculate_ratios"
            /\ result' = result
    /\ UNCHANGED <<call, input, back, stage, cached, imputed_df, null_response_df, out>>

\* calculate_ratios().  With a weight, weighting_df reads
\* validated_back_data_df, a name that is bound only when back_data_df is
\* given.
CalculateRatios ==
    /\ pc = "calculate_ratios"
    /\ LET ratios == calculate_ratios(df)
       IN IF IsNull(call.weight)
          THEN /\ df' = ratios
               /\ pc' = "stage"
               /\ result' = result
          ELSE IF DOMAIN back = {}
          THEN /\ df' = ratios
               /\ Raise("NameError")
          ELSE /\ \E weighting_df \in weighting_dfs(weighting_rows(ratios, back)) :
                    df' = weighted_prepared_df(ratios, weighting_df)
               /\ pc' = "stage"
               /\ result' = result
    /\ UNCHANGED <<call, input, back, stage, cached, imputed_df, null_response_df, out>>

\* The end of a stage in the stage loop: df = stage(df); break when no
\* output is null, else go on to the next stage.
EndStage(d) ==
    /\ df' = d
    /\ IF ~HasNullOutput(d) \/ stage = Len(Stages)
       THEN pc' = "output" /\ stage' = stage
       ELSE pc' = "stage" /\ stage' = stage + 1

\* One pass of the while loop of impute_helper on the caches imp, nul
LoopPass(d, imp, nul) ==
    LET calc == calculation_df(imp, nul, LinkCol(Stages[stage]), MarkerOf(Stages[stage]),
                               Direction(Stages[stage]))
    IN IF DOMAIN calc = {}
       THEN /\ imputed_df' = imp
            /\ null_response_df' = nul
            /\ EndStage(impute_result(d, imp))
       ELSE /\ imputed_df' = union_imputed(imp, calc)
            /\ null_response_df' = leftanti(nul, calc)
            /\ df' = d
            /\ pc' = "impute_helper"
            /\ stage' = stage

\* A stage that calls impute_helper, up to the end of the first pass of
\* its while loop
EnterImputeStage(name) ==
    /\ Stages[stage] = name
    /\ LET d == stage_input(df, name, input, back)
           fresh == fresh_cache(name, cached)
       IN LoopPass(d, IF fresh THEN new_imputed_df(d) ELSE imputed_df,
                      IF fresh THEN new_null_response_df(d) ELSE null_response_df)
    /\ cached' = TRUE
    /\ UNCHANGED <<call, result, input, back, out>>

ForwardImputeFromResponse ==
    /\ pc = "stage"
    /\ EnterImputeStage("forward_impute_from_response")

BackwardImpute ==
    /\ pc = "stage"
    /\ EnterImputeStage("backward_impute")

ForwardImputeFromConstruction ==
    /\ pc = "stage"
    /\ EnterImputeStage("forward_impute_from_construction")

\* A further pass of the while loop
ImputeHelperLoop ==
    /\ pc = "impute_helper"
    /\ LoopPass(df, imputed_df, null_response_df)
    /\ UNCHANGED <<call, result, input, back, cached, out>>

ConstructValues ==
    /\ pc = "stage"
    /\ Stages[stage] = "construct_values"
    /\ EndStage(construct_values(df, input, back))
    /\ UNCHANGED <<call, result, input, back, cached, imputed_df, null_response_df, out>>

\* The final join with prior_period_df and select
Output ==
    /\ pc = "output"
    /\ out' = output_rows(df, input)
    /\ result' = [result EXCEPT !.columns = returned_columns(call, stage)]
    /\ pc' = "done"
    /\ UNCHANGED <<call, input, back, stage, df, cached, imputed_df, null_response_df>>

Next ==
    \/ Prepare
    \/ CalculateRatios
    \/ ForwardImputeFromResponse
    \/ BackwardImpute
    \/ ConstructValues
    \/ ForwardImputeFromConstruction
    \/ ImputeHelperLoop
    \/ Output

Spec == Init /\ [][Next]_vars

SpecBack == InitBack /\ [][Next]_vars

SpecFilter == InitFilter /\ [][Next]_vars

SpecWeight == InitWeight /\ [][Next]_vars

\* The while loop of impute_helper goes on to its next pass: impute() is
\* one sequential call
SpecLive == Init /\ [][Next]_vars /\ WF_vars(ImputeHelperLoop)

\* ------------------------------------------------------------------------
\* Validation of a call: imputation() of the legacy module imputation.py,
\* impute() of the engine and estimate() of estimation.py.  A column is
\* known by the parameter that names it.  A link parameter is left at its
\* default, passed as None, or given a column name.
\* ------------------------------------------------------------------------
LinkParams == {"forward_link_col", "backward_link_col", "construction_link_col"}
ImputationParams == {"reference_col", "period_col", "strata_col", "target_col", "auxiliary_col"}
ImputeParams == {"reference_col", "period_col", "grouping_col", "target_col", "auxiliary_col"}
EstimateParams == <<"period_col", "strata_col", "sample_marker_col">>
EstimateOptionalParams ==
    {"death_marker_col", "h_value_col", "auxiliary_col", "calibration_group_col"}

SeqToSet(q) == {q[i] : i \in 1 .. Len(q)}

\* Whether an optional parameter holds a column name: the defaults are None
\* in imputation() and estimate(), and the strings "forward", "backward"
\* and "construction" in impute().
HasName(fn, value) == value = "given" \/ (value = "default" /\ fn = "impute")

\* utilities.validation.validate_dataframe, as far as missing columns go
validate_dataframe(columns, input_params) ==
    IF input_params \ columns # {} THEN "ValidationError" ELSE None

\* imputation.validate_df: the outcome of the checks in their order
validate_df(c) ==
    LET link_cols == {p \in LinkParams : HasName(c.fn, c.optional[p])}
        expected_cols ==
            ImputationParams \cup (IF "forward_link_col" \in link_cols THEN LinkParams ELSE {})
    IN IF link_cols # {} /\ link_cols # LinkParams
       THEN [raised |-> "TypeError", supplied |-> {}]
       ELSE IF expected_cols \ c.columns # {}
       THEN [raised |-> "ValidationError", supplied |-> {}]
       ELSE [raised |-> None, supplied |-> link_cols]

\* impute(): the parameter checks, input_params and validate_dataframe;
\* supplied are the links calculate_ratios() then takes from the input.
impute_validation(c) ==
    LET link_cols == {p \in {"forward_link_col", "backward_link_col"} :
                        HasName(c.fn, c.optional[p])}
        named == {p \in LinkParams : HasName(c.fn, c.optional[p])}
        in_input == named \cap c.columns
        links == (IF in_input \cap {"forward_link_col", "backward_link_col"} # {}
                  THEN {"forward_link_col", "backward_link_col"} ELSE {})
                 \cup (in_input \cap {"construction_link_col"})
        input_params == ImputeParams \cup links
    IN IF link_cols # {} /\ link_cols # {"forward_link_col", "backward_link_col"}
       THEN [raised |-> "TypeError", supplied |-> {}]
       ELSE [raised |-> validate_dataframe(c.columns, input_params),
             supplied |-> IF validate_dataframe(c.columns, input_params) = None
                          THEN links ELSE {}]

\* estimate(): expected_cols in the order of the list
estimate_expected_cols(c) ==
    LET given(p) == HasName(c.fn, c.optional[p])
    IN EstimateParams
       \o (IF given("death_marker_col") THEN <<"death_marker_col", "h_value_col">> ELSE <<>>)
       \o (IF given("auxiliary_col") THEN <<"auxiliary_col">> ELSE <<>>)
       \o (IF given("calibration_group_col") THEN <<"calibration_group_col">> ELSE <<>>)

\* The loop over expected_cols: input_df.filter(col(col_name).isNull())
\* cannot be analysed when the column is missing
RECURSIVE estimate_null_check(_, _, _)
estimate_null_check(c, cols, i) ==
    IF i > Len(cols) THEN None
    ELSE IF cols[i] \notin c.columns THEN "AnalysisException"
    ELSE IF cols[i] \in c.nulls THEN "ValidationError"
    ELSE estimate_null_check(c, cols, i + 1)

\* estimate(): the parameter checks, the null checks and the missing
\* columns check, in their order
estimate_validation(c) ==
    LET given(p) == HasName(c.fn, c.optional[p])
        expected_cols == estimate_expected_cols(c)
        nulls == estimate_null_check(c, expected_cols, 1)
    IN IF given("death_marker_col") # given("h_value_col")
       THEN [raised |-> "TypeError", supplied |-> {}]
       ELSE IF given("calibration_group_col") /\ ~given("auxiliary_col")
       THEN [raised |-> "TypeError", supplied |-> {}]
       ELSE IF nulls # None
       THEN [raised |-> nulls, supplied |-> {}]
       ELSE IF SeqToSet(expected_cols) \ c.columns # {}
       THEN [raised |-> "ValidationError", supplied |-> {}]
       ELSE [raised |-> None, supplied |-> {}]

\* The calls: any set of columns in the input, any setting of the optional
\* parameters, at most one column with nulls (estimate)
ParamSettings == {"default", "None", "given"}

ValidationCalls ==
    {[fn |-> "imputation", optional |-> o, columns |-> cols, nulls |-> {}] :
        o \in [LinkParams -> ParamSettings], cols \in SUBSET (ImputationParams \cup LinkParams)}
    \cup {[fn |-> "impute", optional |-> o, columns |-> cols, nulls |-> {}] :
        o \in [LinkParams -> ParamSettings], cols \in SUBSET (ImputeParams \cup LinkParams)}
    \cup UNION {{[fn |-> "estimate", optional |-> o, columns |-> cols, nulls |-> n] :
                    n \in {{}} \cup {{x} : x \in cols}} :
        o \in [EstimateOptionalParams -> {"default", "given"}],
        cols \in SUBSET (SeqToSet(EstimateParams) \cup EstimateOptionalParams)}

InitValidation ==
    /\ call \in ValidationCalls
    /\ result = [raised |-> None, supplied |-> {}]
    /\ pc = "call"
    /\ input = EmptyTable
    /\ back = EmptyTable
    /\ stage = 1
    /\ df = EmptyTable
    /\ cached = FALSE
    /\ imputed_df = EmptyTable
    /\ null_response_df = EmptyTable
    /\ out = EmptyTable

Validated(r) ==
    /\ result' = r
    /\ pc' = IF r.raised = None THEN "validated" ELSE "raised"
    /\ UNCHANGED <<call, input, back, stage, df, cached, imputed_df, null_response_df, out>>

ImputationValidateDf ==
    /\ pc = "call"
    /\ call.fn = "imputation"
    /\ Validated(validate_df(call))

ImputeValidation ==
    /\ pc = "call"
    /\ call.fn = "impute"
    /\ Validated(impute_validation(call))

EstimateValidation ==
    /\ pc = "call"
    /\ call.fn = "estimate"
    /\ Validated(estimate_validation(call))

NextValidation ==
    \/ ImputationValidateDf
    \/ ImputeValidation
    \/ EstimateValidation

SpecValidation == InitValidation /\ [][NextValidation]_vars

\* ------------------------------------------------------------------------
\* ratio_calculators.mean_of_ratios on the rows of one (period, grouping):
\* each row holds the current, previous and next output and match of a
\* reference.
\* ------------------------------------------------------------------------
And3(a, b) ==
    IF a = BFALSE \/ b = BFALSE THEN BFALSE
    ELSE IF a = BNULL \/ b = BNULL THEN BNULL
    ELSE BTRUE

Or3(a, b) ==
    IF a = BTRUE \/ b = BTRUE THEN BTRUE
    ELSE IF a = BNULL \/ b = BNULL THEN BNULL
    ELSE BFALSE

Not3(a) == IF a = BNULL THEN BNULL ELSE SqlBool(a = BFALSE)

\* Mutant of matched_output: zero outputs kept whatever include_zeros is
matched_output_zeros(match, output, include_zeros) ==
    IF match = BTRUE THEN output ELSE NULL

\* when(match & (lit(include_zeros) | (output != lit(0))), output)
matched_output(match, output, include_zeros) ==
    IF match = BTRUE /\ (include_zeros \/ (~IsNull(output) /\ ~IsZero(output)))
    THEN output ELSE NULL

\* NOT (other.match AND current.match) AND other.match IS NOT NULL
filtered(other_match, current_match) ==
    And3(Not3(And3(other_match, current_match)), SqlBool(other_match # BNULL))

\* CASE WHEN NOT filtered THEN CASE WHEN other_output = 0 OR
\* (current_output = 0 AND other_output IS NOT NULL) THEN 1
\* ELSE current_output/other_output END END
growth(is_filtered, current_output, other_output) ==
    IF is_filtered # BFALSE THEN NULL
    ELSE IF IsZero(other_output) \/ (IsZero(current_output) /\ ~IsNull(other_output))
    THEN Num(1)
    ELSE Div(current_output, other_output)

\* Mutant of upper_bound: upper_trim read as the percentile kept
upper_bound_percentile(c, upper_trim) == 1 + ((c * upper_trim) \div 100)

\* sql_ceil(c * lower_trim / 100) and 1 + sql_floor(c * (100 - upper_trim) / 100)
lower_bound(c, lower_trim) == (c * lower_trim + 99) \div 100

upper_bound(c, upper_trim) == 1 + ((c * (100 - upper_trim)) \div 100)

\* row_number() OVER (ORDER BY v ASC NULLS LAST): every numbering of the
\* rows that respects the order; rows of equal value come in any order.
row_numbers(v) ==
    {num \in [DOMAIN v -> 1 .. Cardinality(DOMAIN v)] :
        /\ \A i, j \in DOMAIN v : i # j => num[i] # num[j]
        /\ \A i, j \in DOMAIN v :
              (~IsNull(v[i]) /\ (IsNull(v[j]) \/ v[i][1] * v[j][2] < v[j][1] * v[i][2]))
                  => num[i] < num[j]}

\* sum(cast(b AS integer)): nulls are skipped, the sum of no value is null
bool_sum(K, b) ==
    IF \A k \in K : b[k] = BNULL THEN NULL
    ELSE Num(Cardinality({k \in K : b[k] = BTRUE}))

\* Mutant of trimmed: the threshold compared with > for >=
trimmed_strict(num, lower, upper, trim_threshold, count_filtered, count) ==
    Not3(Or3(SqlBool(lower <= num /\ num <= upper),
             IF IsNull(count_filtered) THEN BNULL
             ELSE SqlBool(trim_threshold - count_filtered[1] > count)))

\* ~(num.between(lower, upper) | ((trim_threshold - count_filtered) >= count))
trimmed(num, lower, upper, trim_threshold, count_filtered, count) ==
    Not3(Or3(SqlBool(lower <= num /\ num <= upper),
             IF IsNull(count_filtered) THEN BNULL
             ELSE SqlBool(trim_threshold - count_filtered[1] >= count)))

\* mean(v): the sum over the count of the non-null values
SqlMean(K, v) == Div(SqlSum(K, v), SqlCount(K, v))

\* One direction of mean_of_ratios: the growth ratios, the flags and the
\* link of the group, num being the row numbers drawn by Spark.
mean_of_ratios_link(rows, other_output, other_match, p, num) ==
    LET K == DOMAIN rows
        cur == [k \in K |-> matched_output(rows[k].link_inclusion_current,
                                           rows[k].current_output, p.include_zeros)]
        oth == [k \in K |-> matched_output(other_match[k], other_output[k], p.include_zeros)]
        fil == [k \in K |-> filtered(other_match[k], rows[k].link_inclusion_current)]
        gro == [k \in K |-> growth(fil[k], cur[k], oth[k])]
        count == Cardinality({k \in K : ~IsNull(gro[k])})
        tri == [k \in K |->
                  IF ~p.trim THEN BFALSE
                  ELSE trimmed(num[k], lower_bound(count, p.lower_trim),
                               upper_bound(count, p.upper_trim),
                               p.trim_threshold, bool_sum(K, fil), count)]
        kept == [k \in K |-> IF tri[k] = BFALSE THEN gro[k] ELSE NULL]
    IN [growth |-> gro, filtered |-> fil, trimmed |-> tri,
        link |-> SqlMean(K, kept), count |-> SqlCount(K, kept)]

growth_forward(rows, p) ==
    mean_of_ratios_link(rows, [k \in DOMAIN rows |-> rows[k].previous_output],
                        [k \in DOMAIN rows |-> rows[k].link_inclusion_previous],
                        [p EXCEPT !.trim = FALSE], <<>>).growth

growth_backward(rows, p) ==
    mean_of_ratios_link(rows, [k \in DOMAIN rows |-> rows[k].next_output],
                        [k \in DOMAIN rows |-> rows[k].link_inclusion_next],
                        [p EXCEPT !.trim = FALSE], <<>>).growth

mean_of_ratios(rows, p, num_forward, num_backward) ==
    [forward |-> mean_of_ratios_link(rows, [k \in DOMAIN rows |-> rows[k].previous_output],
                     [k \in DOMAIN rows |-> rows[k].link_inclusion_previous], p, num_forward),
     backward |-> mean_of_ratios_link(rows, [k \in DOMAIN rows |-> rows[k].next_output],
                     [k \in DOMAIN rows |-> rows[k].link_inclusion_next], p, num_backward)]

\* The rows of the group: a current output with its match, the previous
\* and the next row of the reference, absent or with output and match
RatioRowOptions ==
    {[current_output |-> Num(c[1]), link_inclusion_current |-> c[2],
      previous_output |-> o[1], link_inclusion_previous |-> o[2],
      next_output |-> n[1], link_inclusion_next |-> n[2]] :
        c \in {<<0, BTRUE>>, <<1, BTRUE>>, <<2, BTRUE>>, <<1, BFALSE>>},
        o \in {<<NULL, BNULL>>, <<Num(0), BTRUE>>, <<Num(1), BTRUE>>,
               <<Num(2), BTRUE>>, <<Num(1), BFALSE>>},
        n \in {<<NULL, BNULL>>, <<Num(1), BTRUE>>, <<Num(2), BTRUE>>}}

\* lower_trim and upper_trim in percent, trim_threshold in rows; trim tells
\* whether lower_trim is not None
TrimValues == {0, 50, 100}

TrimThresholds == {0, 1, 2}

TrimParams ==
    {[trim |-> FALSE, lower_trim |-> 0, upper_trim |-> 0, trim_threshold |-> 0,
      include_zeros |-> z] : z \in BOOLEAN}
    \cup [trim : {TRUE}, lower_trim : TrimValues, upper_trim : TrimValues,
          trim_threshold : TrimThresholds, include_zeros : BOOLEAN]

InitTrim ==
    /\ \E n \in 1 .. NumRatioRows, p \in TrimParams :
          call \in {[fn |-> "mean_of_ratios", df |-> rows, params |-> p] :
                      rows \in [1 .. n -> RatioRowOptions]}
    /\ result = [raised |-> None]
    /\ pc = "call"
    /\ input = EmptyTable
    /\ back = EmptyTable
    /\ stage = 1
    /\ df = EmptyTable
    /\ cached = FALSE
    /\ imputed_df = EmptyTable
    /\ null_response_df = EmptyTable
    /\ out = EmptyTable

MeanOfRatios ==
    /\ pc = "call"
    /\ call.fn = "mean_of_ratios"
    /\ \E num_forward \in row_numbers(growth_forward(call.df, call.params)),
          num_backward \in row_numbers(growth_backward(call.df, call.params)) :
          result' = [raised |-> None,
                     value |-> mean_of_ratios(call.df, call.params, num_forward, num_backward)]
    /\ pc' = "returned"
    /\ UNCHANGED <<call, input, back, stage, df, cached, imputed_df, null_response_df, out>>

SpecTrim == InitTrim /\ [][MeanOfRatios]_vars

\* ------------------------------------------------------------------------
\* Period arithmetic of the legacy module imputation.py: a period is a
\* string of digits YYYYMM, held as <<length, value>>.  cast("int") gives
\* the value, cast("string") the digits of a number without leading zeros.
\* ------------------------------------------------------------------------
RECURSIVE Digits(_)
Digits(n) == IF n < 10 THEN 1 ELSE 1 + Digits(n \div 10)

CastString(n) == <<Digits(n), n>>

CastInt(str) == str[2]

\* period.endswith("01"), period.endswith("12")
EndsWith(str, suffix) == str[1] >= 2 /\ str[2] % 100 = suffix

\* Mutant of imputation_calculate_next_period: the year rolled over by 88
imputation_calculate_next_period_88(period) ==
    IF EndsWith(period, 12) THEN CastString(CastInt(period) + 88)
    ELSE CastString(CastInt(period) + 1)

imputation_calculate_previous_period(period) ==
    IF EndsWith(period, 1) THEN CastString(CastInt(period) - 89)
    ELSE CastString(CastInt(period) - 1)

imputation_calculate_next_period(period) ==
    IF EndsWith(period, 12) THEN CastString(CastInt(period) + 89)
    ELSE CastString(CastInt(period) + 1)

\* The period keys: every sub-period of a few years, for every periodicity
\* up to twelve (engine) and every month as YYYYMM (legacy module)
PeriodYears == PeriodFirstYear .. PeriodFirstYear + NumPeriodYears - 1

PeriodCalls ==
    {c \in {[fn |-> "impute", periodicity |-> p, period |-> y * 100 + sub] :
                p \in 1 .. MaxPeriodicity, y \in PeriodYears, sub \in 1 .. MaxPeriodicity} :
        c.period % 100 <= c.periodicity}

ImputationPeriodCalls ==
    {[fn |-> "imputation", periodicity |-> 12, period |-> CastString(y * 100 + sub)] :
        y \in PeriodYears, sub \in 1 .. 12}

InitPeriods ==
    /\ \/ call \in PeriodCalls
       \/ call \in ImputationPeriodCalls
    /\ result = [raised |-> None, value |-> call.period, applied |-> <<>>]
    /\ pc = "call"
    /\ input = EmptyTable
    /\ back = EmptyTable
    /\ stage = 1
    /\ df = EmptyTable
    /\ cached = FALSE
    /\ imputed_df = EmptyTable
    /\ null_response_df = EmptyTable
    /\ out = EmptyTable

\* One more period function applied to the value, twice at most
Applied(name, value) ==
    /\ Len(result.applied) < 2
    /\ result' = [result EXCEPT !.value = value, !.applied = Append(@, name)]
    /\ UNCHANGED <<call, pc, input, back, stage, df, cached, imputed_df, null_response_df, out>>

CalculatePreviousPeriod ==
    /\ call.fn = "impute"
    /\ Applied("previous", calculate_previous_period(result.value, call.periodicity))

CalculateNextPeriod ==
    /\ call.fn = "impute"
    /\ Applied("next", calculate_next_period(result.value, call.periodicity))

ImputationCalculatePreviousPeriod ==
    /\ call.fn = "imputation"
    /\ Applied("previous", imputation_calculate_previous_period(result.value))

ImputationCalculateNextPeriod ==
    /\ call.fn = "imputation"
    /\ Applied("next", imputation_calculate_next_period(result.value))

NextPeriods ==
    \/ CalculatePreviousPeriod
    \/ CalculateNextPeriod
    \/ ImputationCalculatePreviousPeriod
    \/ ImputationCalculateNextPeriod

SpecPeriods == InitPeriods /\ [][NextPeriods]_vars

\* ------------------------------------------------------------------------
\* calculate_ratios of the legacy imputation(), next to the engine's
\* ------------------------------------------------------------------------
\* calculate_ratios of imputation().  The legacy table has one strata
\* column where the engine has grouping, and its rows carry the
\* previous_period and next_period columns the preparation gave them.
\*   filtered_df: the rows with an output;
\*   strata_forward_union_df of every strata: one row per period of the
\*   strata that has a row with an output, the denominators being
\*   when(col == 0, lit(1.0)).otherwise(col), with forward and construction
\*   filled with 1.0;
\*   ratio_union_df: these rows joined on period with
\*   select(col("next_period").alias("period"),
\*   col("forward").alias("next_forward")), backward being
\*   1.0 / next_forward, filled with 1.0;
\*   ret_df: df.join(ratio_union_df, ["period", "strata"])
imputation_calculate_ratios(d) ==
    LET filtered_df == [k \in {x \in DOMAIN d : ~IsNull(d[x].output)} |-> d[k]]
        denominator(total) == IF IsZero(total) THEN Num(1) ELSE total
        strata_forward_union_df ==
            [g \in {GroupOf(k) : k \in DOMAIN filtered_df} |->
                LET K == {k \in DOMAIN filtered_df : GroupOf(k) = g}
                    prev(k) == <<Ref(k), filtered_df[k].previous_period, Grouping(k)>>
                    other_output ==
                        [k \in K |-> IF prev(k) \in DOMAIN filtered_df
                                     THEN filtered_df[prev(k)].output ELSE NULL]
                    output == [k \in K |-> IF ~IsNull(other_output[k])
                                           THEN filtered_df[k].output ELSE NULL]
                    output_for_construction == [k \in K |-> filtered_df[k].output]
                    aux == [k \in K |-> filtered_df[k].aux]
                IN [next_period |-> calculate_next_period(g[1], Periodicity),
                    forward |-> FillNa(Div(SqlSum(K, output),
                                           denominator(SqlSum(K, other_output))), Num(1)),
                    construction |-> FillNa(Div(SqlSum(K, output_for_construction),
                                                denominator(SqlSum(K, aux))), Num(1))]]
        ratio_union_df ==
            [g \in DOMAIN strata_forward_union_df |->
                LET joined == {q \in DOMAIN strata_forward_union_df :
                                  /\ q[2] = g[2]
                                  /\ strata_forward_union_df[q].next_period = g[1]}
                    next_forward == IF joined = {} THEN NULL
                                    ELSE strata_forward_union_df[CHOOSE q \in joined : TRUE].forward
                IN [forward |-> strata_forward_union_df[g].forward,
                    backward |-> FillNa(Div(Num(1), next_forward), Num(1)),
                    construction |-> strata_forward_union_df[g].construction]]
    IN [k \in {x \in DOMAIN d : GroupOf(x) \in DOMAIN ratio_union_df} |->
        [d[k] EXCEPT !.forward = ratio_union_df[GroupOf(k)].forward,
                     !.backward = ratio_union_df[GroupOf(k)].backward,
                     !.construction = ratio_union_df[GroupOf(k)].construction]]

\* The ratio calculation of either implementation on a prepared input
InitRatios ==
    /\ call \in {[NoOptions EXCEPT !.fn = f] : f \in {"impute", "imputation"}}
    /\ \E c \in InputChoices(InputPeriods) : input = InputTable(c, InputPeriods)
    /\ back = EmptyTable
    /\ result = [raised |-> None]
    /\ pc = "call"
    /\ stage = 1
    /\ df = EmptyTable
    /\ cached = FALSE
    /\ imputed_df = EmptyTable
    /\ null_response_df = EmptyTable
    /\ out = EmptyTable

EngineCalculateRatios ==
    /\ call.fn = "impute"
    /\ pc = "call"
    /\ df' = calculate_ratios(prepared_df(input, back))
    /\ pc' = "returned"
    /\ UNCHANGED <<call, result, input, back, stage, cached, imputed_df, null_response_df, out>>

ImputationCalculateRatios ==
    /\ call.fn = "imputation"
    /\ pc = "call"
    /\ df' = imputation_calculate_ratios(prepare_input(input))
    /\ pc' = "returned"
    /\ UNCHANGED <<call, result, input, back, stage, cached, imputed_df, null_response_df, out>>

NextRatios ==
    \/ EngineCalculateRatios
    \/ ImputationCalculateRatios

SpecRatios == InitRatios /\ [][NextRatios]_vars

\* ------------------------------------------------------------------------
\* Properties
\* ------------------------------------------------------------------------
Responded == {k \in DOMAIN input : ~IsNull(input[k].target)}
Prepared == pc # "prepare"
ImputationMarkers == Markers \ {RESPONSE}

\* C1: from preparation to output assembly, every record whose input target
\* is not null has marker RESPONSE and an output equal to its target, in the
\* working table and in the returned table: no stage changes either.
C1_ResponsesKept ==
    /\ Prepared =>
        \A k \in Responded :
            /\ k \in DOMAIN df
            /\ df[k].output = input[k].target
            /\ df[k].marker = RESPONSE
    /\ pc = "done" =>
        \A k \in Responded :
            /\ k \in DOMAIN out
            /\ out[k].output = input[k].target
            /\ out[k].marker = RESPONSE

\* C1 witness: a finished run that went through all four stages, with
\* responses next to backward imputed, constructed and forward imputed
\* records.
C1_Witness ==
    /\ pc = "done"
    /\ stage = Len(Stages)
    /\ Responded # {}
    /\ \E k \in DOMAIN out : out[k].marker = BACKWARD_IMPUTE
    /\ \E k \in DOMAIN out : out[k].marker = CONSTRUCTED
    /\ \E k \in DOMAIN out : out[k].marker = FORWARD_IMPUTE_FROM_CONSTRUCTION

\* C2: when every input record has a target (and there is no back data),
\* the returned table has exactly the input records, each with output equal
\* to its target and marker RESPONSE, and so none with an imputation marker.
C2_FullyResponded ==
    (pc = "done" /\ Responded = DOMAIN input /\ DOMAIN back = {}) =>
        /\ DOMAIN out = DOMAIN input
        /\ \A k \in DOMAIN out :
            /\ out[k].output = input[k].target
            /\ out[k].marker = RESPONSE
            /\ out[k].marker \notin ImputationMarkers

\* C2 witness: a finished run on a fully responded input in which both
\* refs have records in several periods.
C2_Witness ==
    /\ pc = "done"
    /\ Responded = DOMAIN input
    /\ DOMAIN back = {}
    /\ \A r \in Refs : Cardinality({k \in DOMAIN input : Ref(k) = r}) >= 2

\* The record of the same ref and grouping one period before / after k
PreviousKey(k) == <<Ref(k), calculate_previous_period(Period(k), Periodicity), Grouping(k)>>
NextKey(k) == <<Ref(k), calculate_next_period(Period(k), Periodicity), Grouping(k)>>

InStage(name) == pc \in {"stage", "impute_helper"} /\ Stages[stage] = name

\* C3 (as claimed): while the backward-impute stage runs no record is
\* marked CONSTRUCTED or FORWARD_IMPUTE_FROM_CONSTRUCTION, and every record
\* marked BACKWARD_IMPUTE has its value from the next-period record of the
\* same ref and grouping through the backward link, that record being a
\* RESPONSE or again BACKWARD_IMPUTE, so that the chain ends at a response.
C3_BackwardFromResponse ==
    /\ InStage("backward_impute") =>
        \A k \in DOMAIN df :
            df[k].marker \notin {CONSTRUCTED, FORWARD_IMPUTE_FROM_CONSTRUCTION}
    /\ Prepared =>
        \A k \in DOMAIN df :
            df[k].marker = BACKWARD_IMPUTE =>
                /\ NextKey(k) \in DOMAIN df
                /\ df[NextKey(k)].marker \in {RESPONSE, BACKWARD_IMPUTE}
                /\ df[k].output = Mul(df[k].backward, df[NextKey(k)].output)

\* C4: a step of a propagation stage gives an output to a record without
\* one only from the record of the same ref and grouping at its previous
\* period (forward stages) or next period (backward stage): that record
\* exists, has an output, and the new output is the link times it.
PropagationStage == pc \in {"stage", "impute_helper"} /\ Stages[stage] # "construct_values"

FilledBy(k, name) ==
    LET s == IF Direction(name) THEN PreviousKey(k) ELSE NextKey(k)
    IN /\ s \in DOMAIN df'
       /\ ~IsNull(df'[s].output)
       /\ df'[k].output = Mul(df'[k][LinkCol(name)], df'[s].output)
       /\ df'[k].marker = MarkerOf(name)

C4_AdjacentOnly ==
    [][PropagationStage =>
        \A k \in DOMAIN df :
            (IsNull(df[k].output) /\ ~IsNull(df'[k].output)) => FilledBy(k, Stages[stage])]_vars

\* C4 witness: after the two response stages a record has been forward
\* imputed while another record is still without an output although its
\* ref has an output in another grouping or in a period that is not
\* adjacent.
C4_Witness ==
    /\ pc = "stage"
    /\ Stages[stage] = "construct_values"
    /\ \E k \in DOMAIN df :
        df[k].marker = FORWARD_IMPUTE_FROM_RESPONSE /\ ~IsNull(df[k].output)
    /\ \E k \in DOMAIN df : \E j \in DOMAIN df :
        /\ IsNull(df[k].output)
        /\ ~IsNull(df[j].output)
        /\ Ref(j) = Ref(k)
        /\ j \notin {PreviousKey(k), NextKey(k)}

\* C5 (as claimed): for a ref with a response in period 1, a null target
\* in period 2 of the same grouping and a null target in period 3, the run
\* without the period 3 record gives period 2 the same output and the same
\* marker, and in both runs period 2 is resolved from period 1: it is
\* marked FORWARD_IMPUTE_FROM_RESPONSE and its output, the forward link
\* times the period 1 output, is not null.
Without(inp, k) == [x \in DOMAIN inp \ {k} |-> inp[x]]

ResolvedForward(o, k) ==
    /\ k \in DOMAIN o
    /\ o[k].marker = FORWARD_IMPUTE_FROM_RESPONSE
    /\ ~IsNull(o[k].output)
    /\ o[k].output = Mul(o[k].forward, input[PreviousKey(k)].target)

C5_Pattern(k2, k3) ==
    /\ Period(k2) = NthPeriod(2)
    /\ Period(k3) = NthPeriod(3)
    /\ Ref(k2) = Ref(k3)
    /\ PreviousKey(k2) \in Responded
    /\ k2 \in DOMAIN input \ Responded
    /\ k3 \in DOMAIN input \ Responded

C5_ChainNonInteraction ==
    pc = "done" =>
        \A k2 \in DOMAIN input : \A k3 \in DOMAIN input :
            C5_Pattern(k2, k3) =>
                LET other == impute(Without(input, k3), back)
                IN /\ ResolvedForward(out, k2)
                   /\ ResolvedForward(other, k2)
                   /\ out[k2].output = other[k2].output
                   /\ out[k2].marker = other[k2].marker

\* C6: back-data round trip.  With O the table returned for the input
\* periods 1, 2, 3, a second run on the input records of periods 2 and 3
\* with the period 1 rows of O as back data returns, for every record of
\* periods 2 and 3, the output, the marker and the three links of O.
RoundTripInput == [k \in {x \in DOMAIN input : Period(x) # NthPeriod(1)} |-> input[k]]

RoundTripBack ==
    [k \in {x \in DOMAIN out : Period(x) = NthPeriod(1)} |->
        [output |-> out[k].output, marker |-> out[k].marker, aux |-> out[k].aux]]

SameResult(a, b) ==
    /\ a.output = b.output
    /\ a.marker = b.marker
    /\ a.forward = b.forward
    /\ a.backward = b.backward
    /\ a.construction = b.construction

C6_RoundTrip ==
    (pc = "done" /\ DOMAIN back = {}) =>
        LET second == impute(RoundTripInput, RoundTripBack)
        IN \A k \in DOMAIN out :
            Period(k) # NthPeriod(1) => (k \in DOMAIN second /\ SameResult(second[k], out[k]))

\* C7: the returned table has exactly the input records and no back data
\* record: every returned period is after the period before the earliest
\* input period, at whichever stage the stage loop was left.
C7_OutputRows ==
    pc = "done" =>
        /\ DOMAIN out = DOMAIN input
        /\ DOMAIN out \cap DOMAIN back = {}
        /\ \A k \in DOMAIN out : Period(k) > prior_period(input)

\* C7 witness: a finished run whose working table took in a back data
\* response at preparation and a back data construction at the construct
\* stage, neither of which is returned.
C7_Witness ==
    /\ pc = "done"
    /\ DOMAIN input # {}
    /\ \E k \in DOMAIN df \ DOMAIN out : df[k].marker = RESPONSE
    /\ \E k \in DOMAIN df \ DOMAIN out : df[k].marker = CONSTRUCTED

\* C8 (as claimed): aux being null in no input record, every returned
\* record has an output, at whichever stage the stage loop was left.
C8_FullCoverage ==
    (pc = "done" /\ \A k \in DOMAIN input : ~IsNull(input[k].aux)) =>
        \A k \in DOMAIN out : ~IsNull(out[k].output)

\* The pairs of a (period, grouping): the responded records of the group
\* whose previous-period (next-period) record of the same ref and grouping
\* responded as well
ForwardPairs(g) == {k \in Responded : GroupOf(k) = g /\ PreviousKey(k) \in Responded}
BackwardPairs(g) == {k \in Responded : GroupOf(k) = g /\ NextKey(k) \in Responded}

RECURSIVE SumTargets(_)
SumTargets(K) ==
    IF K = {} THEN Num(0)
    ELSE LET k == CHOOSE x \in K : TRUE
         IN Add(input[k].target, SumTargets(K \ {k}))

RatiosDone == pc \notin {"prepare", "calculate_ratios"}

C10_DefaultLinks ==
    (RatiosDone /\ DOMAIN back = {}) =>
        \A k \in DOMAIN input :
            LET g == GroupOf(k)
                fden == SumTargets({PreviousKey(x) : x \in ForwardPairs(g)})
                bden == SumTargets({NextKey(x) : x \in BackwardPairs(g)})
            IN /\ ~IsNull(df[k].forward)
               /\ ~IsNull(df[k].backward)
               /\ IsZero(fden) => (df[k].default_forward = BTRUE /\ df[k].forward = Num(1))
               /\ IsZero(bden) => (df[k].default_backward = BTRUE /\ df[k].backward = Num(1))

\* The records with an output when the ratios are calculated: the input
\* responses and the back data responses of the prior period; those of a
\* (period, grouping) that pass the link filter
BackResponses ==
    {k \in DOMAIN back : Period(k) = prior_period(input) /\ back[k].marker = RESPONSE}

ResponseValue(k) == IF k \in DOMAIN input THEN input[k].target ELSE back[k].output
AuxValue(k) == IF k \in DOMAIN input THEN input[k].aux ELSE back[k].aux

PassesFilter(k) == call.link_filter = None \/ filtered_refs[k] = BTRUE

Contributors(g) == {k \in Responded \cup BackResponses : GroupOf(k) = g /\ PassesFilter(k)}

\* Sum of the values v[k], k in K, none of them null
RECURSIVE Total(_, _)
Total(K, v) ==
    IF K = {} THEN Num(0)
    ELSE LET k == CHOOSE x \in K : TRUE
         IN Add(v[k], Total(K \ {k}, v))

Calculated == pc \notin {"prepare", "calculate_ratios", "raised"}

\* C11: after the ratio calculation every record of a (period, grouping)
\* has count_construction = the number of the group's records with an
\* output that pass the link filter; when there is none, count_construction
\* is 0 and default_construction true; otherwise construction is the sum of
\* their outputs divided by the sum of their aux.
C11_Construction ==
    Calculated =>
        \A k \in DOMAIN df :
            LET K == Contributors(GroupOf(k))
                outputs == [x \in K |-> ResponseValue(x)]
                auxs == [x \in K |-> AuxValue(x)]
            IN /\ df[k].count_construction = Num(Cardinality(K))
               /\ K = {} => df[k].default_construction = BTRUE
               /\ K # {} => df[k].construction = Div(Total(K, outputs), Total(K, auxs))

\* C11 witness: the ratios are calculated with a link filter; one group
\* has a response that passes and one that does not, another group has
\* responses none of which passes.
C11_Witness ==
    /\ pc = "stage"
    /\ stage = 1
    /\ call.link_filter # None
    /\ \E k \in Responded : \E j \in Responded :
        GroupOf(k) = GroupOf(j) /\ PassesFilter(k) /\ ~PassesFilter(j)
    /\ \E k \in Responded : Contributors(GroupOf(k)) = {}

\* The link parameters the caller gives a column name, and a call that
\* gives some but not all of them
Specified(c) == {p \in LinkParams : c.optional[p] = "given"}

PartialLinks(c) == Specified(c) # {} /\ Specified(c) # LinkParams

Returned == pc \in {"validated", "raised"}

\* C12: a call of imputation() or impute() that names some but not all of
\* the forward, backward and construction link columns raises TypeError,
\* and no call goes on with some links taken from the input and the
\* others computed.
C12_PartialLinksRaise ==
    (Returned /\ call.fn \in {"imputation", "impute"}) =>
        /\ PartialLinks(call) => result.raised = "TypeError"
        /\ result.raised = None => result.supplied \in {{}, LinkParams}

\* The columns the required parameters name, and a call whose optional
\* parameters are given together as the functions ask
RequiredColumns(c) ==
    CASE c.fn = "imputation" -> ImputationParams
      [] c.fn = "impute" -> ImputeParams
      [] c.fn = "estimate" -> SeqToSet(EstimateParams)

ParamsConsistent(c) ==
    LET named == {p \in DOMAIN c.optional : HasName(c.fn, c.optional[p])}
    IN IF c.fn = "estimate"
       THEN /\ ("death_marker_col" \in named) = ("h_value_col" \in named)
            /\ "calibration_group_col" \in named => "auxiliary_col" \in named
       ELSE named \in {{}, LinkParams}

\* C13: a call of imputation(), impute() or estimate() whose input lacks a
\* column named by a required parameter raises ValidationError.
C13_MissingColumn ==
    (Returned /\ ParamsConsistent(call) /\ RequiredColumns(call) \ call.columns # {}) =>
        result.raised = "ValidationError"

\* The growth ratios of the call and the result without trim parameters
Untrimmed ==
    mean_of_ratios(call.df, [call.params EXCEPT !.trim = FALSE], <<>>, <<>>)

NothingTrimmed ==
    \A d \in {"forward", "backward"} :
        /\ \A k \in DOMAIN call.df :
              ~IsNull(result.value[d].growth[k]) => result.value[d].trimmed[k] = BFALSE
        /\ result.value[d].link = Untrimmed[d].link
        /\ result.value[d].count = Untrimmed[d].count

\* C14 (as claimed): with lower_trim = 0 and upper_trim = 100 no growth
\* ratio is flagged trimmed and the forward and backward links are the
\* means of all non-null growth ratios of the group.
C14_TrimNoOp ==
    (pc = "returned" /\ call.fn = "mean_of_ratios" /\ call.params.trim
        /\ call.params.lower_trim = 0 /\ call.params.upper_trim = 100) => NothingTrimmed

\* C14 (amended): with lower_trim = 0 and upper_trim = 0 no growth ratio is
\* flagged trimmed and the forward and backward links are the means of all
\* non-null growth ratios of the group.
C14_ZeroTrimNoOp ==
    (pc = "returned" /\ call.fn = "mean_of_ratios" /\ call.params.trim
        /\ call.params.lower_trim = 0 /\ call.params.upper_trim = 0) => NothingTrimmed

\* Two different growth ratios, none trimmed at lower_trim = upper_trim = 0
\* with a threshold that does not switch trimming off
C14_Witness ==
    /\ pc = "returned"
    /\ call.fn = "mean_of_ratios"
    /\ call.params.trim
    /\ call.params.lower_trim = 0
    /\ call.params.upper_trim = 0
    /\ call.params.trim_threshold = 0
    /\ result.value.forward.count = Num(2)
    /\ result.value.forward.link = Norm(3, 2)
    /\ \E i, j \in DOMAIN call.df :
          result.value.forward.growth[i] # result.value.forward.growth[j]

\* The links before the weighting, u(P, G) for every row of (P, G), and the
\* links found for the group of a row at the previous period of the
\* weighting, in the current run or in the back data
LinkNames == {"forward", "backward", "construction"}

UnweightedName(link) ==
    CASE link = "forward" -> "forward_unweighted"
      [] link = "backward" -> "backward_unweighted"
      [] link = "construction" -> "construction_unweighted"

Unweighted ==
    [k \in DOMAIN df |->
        LET row == calculate_ratios(df)[k]
        IN UnweightedLinks(row.forward, row.backward, row.construction)]

UnweightedColumns ==
    [k \in DOMAIN df |->
        UnweightedLinks(df[k].forward_unweighted, df[k].backward_unweighted,
                        df[k].construction_unweighted)]

PreviousLinks(unweighted, k, link) ==
    LET g == <<calculate_previous_period(Period(k),
                    call.weight_periodicity_multiplier * Periodicity), Grouping(k)>>
    IN {unweighted[x][link] : x \in {y \in DOMAIN unweighted : GroupOf(y) = g}}
       \cup {back[x][UnweightedName(link)] : x \in {y \in DOMAIN back : GroupOf(y) = g}}

Blend(w, u, v) == Plus(Mul(w, u), Mul(OneMinus(w), v))

Weighted == pc = "stage" /\ stage = 1 /\ ~IsNull(call.weight)

\* C15: with a weight w the link of an input row of (P, G) is
\* w * u(P, G) + (1 - w) * u(P', G) when an unweighted link u(P', G) exists
\* for the previous period P' of the weighting, and u(P, G) otherwise; the
\* rows carry u(P, G) in their *_unweighted columns.  u is the link the
\* ratio calculators give for the outputs of the rows.
C15_WeightedLinks ==
    Weighted =>
        LET unweighted == Unweighted
        IN /\ UnweightedColumns = unweighted
           /\ \A k \in DOMAIN input : \A link \in LinkNames :
                LET u == unweighted[k][link]
                    prevs == {v \in PreviousLinks(unweighted, k, link) : ~IsNull(v)}
                IN IF prevs = {} THEN df[k][link] = u
                   ELSE df[k][link] \in {Blend(call.weight, u, v) : v \in prevs}

\* The value of a period key as year * 100 + sub-period
KeyValue(period) == IF call.fn = "imputation" THEN CastInt(period) ELSE period

\* C16: on a valid period key next(previous(k)) = k and previous(next(k)) = k;
\* next of the last sub-period is sub-period 1 of the following year,
\* previous of sub-period 1 is the last sub-period of the preceding year,
\* and any other step moves the sub-period by one (for YYYYMM keys +89
\* after month 12, -89 before month 01, +1 or -1 otherwise).
C16_PeriodRoundTrip ==
    (call.fn \in {"impute", "imputation"} /\ pc = "call") =>
        LET k == KeyValue(call.period)
            p == call.periodicity
        IN /\ result.applied \in {<<"previous", "next">>, <<"next", "previous">>} =>
                result.value = call.period
           /\ result.applied = <<"next">> =>
                KeyValue(result.value) =
                    IF k % 100 = p THEN (k \div 100 + 1) * 100 + 1 ELSE k + 1
           /\ result.applied = <<"previous">> =>
                KeyValue(result.value) =
                    IF k % 100 = 1 THEN (k \div 100 - 1) * 100 + p ELSE k - 1
           /\ (call.fn = "imputation" /\ result.applied = <<"next">>) =>
                CastInt(result.value) - k = IF k % 100 = 12 THEN 89 ELSE 1
           /\ (call.fn = "imputation" /\ result.applied = <<"previous">>) =>
                k - CastInt(result.value) = IF k % 100 = 1 THEN 89 ELSE 1

\* C16 witness: a YYYYMM key of month 12 taken to the next period, the
\* January of the following year, and back
C16_Witness ==
    /\ call.fn = "imputation"
    /\ call.period = CastString(199912)
    /\ result.applied = <<"next", "previous">>
    /\ result.value = call.period

\* C17: with the default output names and no link filter or weight the
\* returned table has exactly the columns reference, period, grouping,
\* auxiliary, forward, backward, construction, imputed, imputation_marker,
\* count_forward, count_backward and count_construction.
C17_ReturnedColumns ==
    (pc = "done" /\ call = NoOptions) =>
        result.columns = {"reference", "period", "grouping", "auxiliary", "forward",
                          "backward", "construction", "imputed", "imputation_marker",
                          "count_forward", "count_backward", "count_construction"}

\* C18: a call with a link filter or a weight and without back data raises
\* no error.
C18_NoBackData ==
    (call.fn = "impute" /\ DOMAIN back = {}
        /\ (call.link_filter # None \/ ~IsNull(call.weight))) => result.raised = None

\* A step that executes a stage after the preparation: the ratio
\* calculation or the start of one of the four imputation stages
StageExecuted == pc \in {"calculate_ratios", "stage"} /\ pc' # "raised"

\* C19: a stage after the preparation is executed only if some record has
\* a null output when the stage is reached; for a fully responded input
\* none of the imputation stages is executed.
C19_EarlyTermination == [][StageExecuted => HasNullOutput(df)]_vars

\* The still-null set a propagation stage starts its loop with
EntryNulls ==
    LET name == Stages[stage]
        d == stage_input(df, name, input, back)
    IN IF fresh_cache(name, cached) THEN new_null_response_df(d) ELSE null_response_df

\* A pass of the loop: from before to after the still-null set shrinks,
\* strictly when the loop goes on, and it is unchanged when the loop ends
Shrinks(before, after) ==
    /\ DOMAIN after \subseteq DOMAIN before
    /\ (pc' = "impute_helper") = (DOMAIN after # DOMAIN before)

LoopPassShrinks ==
    /\ pc = "impute_helper" => Shrinks(null_response_df, null_response_df')
    /\ (pc = "stage" /\ Stages[stage] # "construct_values") =>
           Shrinks(EntryNulls, null_response_df')

\* C20: each propagation loop terminates: the still-null set never grows,
\* every pass that does not end the loop removes at least one record from
\* it, the loop ends at the first pass that resolves no record, and a run
\* inside a loop leaves it.
C20_LoopTerminates ==
    /\ [][LoopPassShrinks]_vars
    /\ (pc = "impute_helper") ~> (pc # "impute_helper")

\* C20 witness: after a pass of a propagation loop records are still to
\* be resolved, and the next pass resolves one of them
C20_Witness ==
    /\ pc = "impute_helper"
    /\ DOMAIN null_response_df # {}
    /\ DOMAIN calculation_df(imputed_df, null_response_df, LinkCol(Stages[stage]),
                             MarkerOf(Stages[stage]), Direction(Stages[stage])) # {}

\* A step that ends the stage being run: the stage loop goes on to the next
\* stage or leaves for the output
StageEnds == pc \in {"stage", "impute_helper"} /\ pc' \in {"stage", "output"}

\* The record a propagation stage takes the value of k from
SourceKey(k, name) == IF Direction(name) THEN PreviousKey(k) ELSE NextKey(k)

\* C21: when a propagation stage ends, no record without an output has a
\* record with an output at its previous period (forward stages) or at its
\* next period (backward stage) for the same ref and grouping, whatever
\* the length of the chain.
C21_FixedPoint ==
    [][(PropagationStage /\ StageEnds) =>
        \A k \in DOMAIN df' :
            IsNull(df'[k].output) =>
                LET s == SourceKey(k, Stages[stage])
                IN ~(s \in DOMAIN df' /\ ~IsNull(df'[s].output))]_vars

\* The back data records the construct stage merges into the working table
InputPeriodsOf(inp) == {Period(k) : k \in DOMAIN inp}
EarliestPeriod(inp) == CHOOSE p \in InputPeriodsOf(inp) : \A q \in InputPeriodsOf(inp) : p <= q

\* The back data records of the period before the earliest input period
PriorPeriodRows ==
    IF DOMAIN input = {} THEN {}
    ELSE {k \in DOMAIN back :
            Period(k) = calculate_previous_period(EarliestPeriod(input), Periodicity)}

ConstructionSeeds ==
    {k \in PriorPeriodRows :
        back[k].marker \in {CONSTRUCTED, FORWARD_IMPUTE_FROM_CONSTRUCTION}}

\* C22: the construct stage gives output = aux * construction link and
\* marker CONSTRUCTED to exactly the records without an output that have no
\* record at all, merged back data records included, at their previous
\* period for the same ref and grouping; a record without an output whose
\* previous-period record exists is left as it is, a record with an output
\* keeps output and marker, and the records of the table are those it had
\* together with the merged back data records.
C22_ConstructFrame ==
    [][(pc = "stage" /\ Stages[stage] = "construct_values") =>
        /\ DOMAIN df' = DOMAIN df \cup ConstructionSeeds
        /\ \A k \in ConstructionSeeds \ DOMAIN df :
            /\ df'[k].output = back[k].output
            /\ df'[k].marker = back[k].marker
        /\ \A k \in DOMAIN df :
            IF ~IsNull(df[k].output)
            THEN /\ df'[k].output = df[k].output
                 /\ df'[k].marker = df[k].marker
            ELSE IF PreviousKey(k) \notin DOMAIN df'
            THEN /\ df'[k].output = Mul(df[k].aux, df[k].construction)
                 /\ df'[k].marker = CONSTRUCTED
            ELSE /\ IsNull(df'[k].output)
                 /\ df'[k].marker = df[k].marker]_vars

\* The back data records that may be merged into the working table
SeedRows == {k \in PriorPeriodRows : back[k].marker # BACKWARD_IMPUTE}

\* C23: the only records of the working table that are not input records
\* are back data records of the period before the earliest input period
\* whose marker is not BACKWARD_IMPUTE, with the output and the marker the
\* back data gives them; a back data record of another period, or marked
\* BACKWARD_IMPUTE, is never in the working table and never returned, and
\* the run returns what it returns without these records.
C23_SeedRows ==
    /\ Prepared =>
        /\ \A k \in DOMAIN df \ DOMAIN input :
            /\ k \in SeedRows
            /\ df[k].output = back[k].output
            /\ df[k].marker = back[k].marker
        /\ \A k \in DOMAIN back \ SeedRows :
            /\ k \notin DOMAIN df
            /\ k \notin DOMAIN out
    /\ pc = "done" => out = impute(input, [k \in SeedRows |-> back[k]])

\* C23 witness: a finished run in which one back data record has been
\* merged and has seeded the value of an input record, while another back
\* data record, marked BACKWARD_IMPUTE or of another period, has not.
C23_Witness ==
    /\ pc = "done"
    /\ \E k \in DOMAIN df \ DOMAIN input :
        \E j \in DOMAIN out :
            /\ PreviousKey(j) = k
            /\ out[j].marker \in {FORWARD_IMPUTE_FROM_RESPONSE, FORWARD_IMPUTE_FROM_CONSTRUCTION}
    /\ \E k \in DOMAIN back \ SeedRows : back[k].marker = BACKWARD_IMPUTE

\* The back data records merged at each point of the run
SeedsMarked(ms) == {k \in SeedRows : back[k].marker \in ms}
Joined == DOMAIN df' \ DOMAIN df

LinksOf(t) == [k \in DOMAIN t |-> <<t[k].forward, t[k].backward, t[k].construction>>]

\* C24: the back data RESPONSE records join the working table at the
\* preparation, the FORWARD_IMPUTE_FROM_RESPONSE records at the start of
\* forward_impute_from_response, the CONSTRUCTED and
\* FORWARD_IMPUTE_FROM_CONSTRUCTION records at the start of construct_values
\* and no record joins at any other step; the ratios are calculated on
\* input and back data RESPONSE records only and the links are not changed
\* afterwards, so that the returned links are those of the run given the
\* back data RESPONSE records alone; and the record a record marked
\* FORWARD_IMPUTE_FROM_RESPONSE (BACKWARD_IMPUTE) has its value from, at
\* its previous (next) period, is never a back data CONSTRUCTED or
\* FORWARD_IMPUTE_FROM_CONSTRUCTION record.
C24_SeedingOrder ==
    [][/\ pc = "prepare" => DOMAIN df' = DOMAIN input \cup SeedsMarked({RESPONSE})
       /\ pc = "calculate_ratios" =>
            /\ DOMAIN df \ DOMAIN input = SeedsMarked({RESPONSE})
            /\ Joined = {}
       /\ (pc = "stage" /\ Stages[stage] = "forward_impute_from_response") =>
            Joined = SeedsMarked({FORWARD_IMPUTE_FROM_RESPONSE})
       /\ (pc = "stage" /\ Stages[stage] = "construct_values") =>
            Joined = ConstructionSeeds
       /\ (pc = "impute_helper"
            \/ (pc = "stage" /\ Stages[stage] \in {"backward_impute",
                                                  "forward_impute_from_construction"})
            \/ pc = "output") => Joined = {}
       /\ Calculated => \A k \in DOMAIN df : LinksOf(df')[k] = LinksOf(df)[k]
       /\ pc = "output" =>
            LinksOf(out') = LinksOf(impute(input, [k \in SeedsMarked({RESPONSE}) |-> back[k]]))
       /\ \A k \in DOMAIN df' :
            /\ df'[k].marker = FORWARD_IMPUTE_FROM_RESPONSE =>
                    PreviousKey(k) \notin ConstructionSeeds
            /\ df'[k].marker = BACKWARD_IMPUTE =>
                    NextKey(k) \notin ConstructionSeeds]_vars

\* C24 witness: a finished run whose back data gave a RESPONSE record and
\* a constructed record to the working table, the latter being the
\* previous-period record of a returned record marked
\* FORWARD_IMPUTE_FROM_CONSTRUCTION whose forward link is calculated.
C24_Witness ==
    /\ pc = "done"
    /\ SeedsMarked({RESPONSE}) \cap DOMAIN df # {}
    /\ \E j \in DOMAIN out :
        /\ out[j].marker = FORWARD_IMPUTE_FROM_CONSTRUCTION
        /\ ~IsNull(out[j].output)
        /\ PreviousKey(j) \in ConstructionSeeds \cap DOMAIN df

\* C25: in the returned table every record marked
\* FORWARD_IMPUTE_FROM_RESPONSE has a record of the same ref and grouping at
\* its previous period, in the table or merged from the back data, marked
\* RESPONSE or FORWARD_IMPUTE_FROM_RESPONSE, and every record marked
\* FORWARD_IMPUTE_FROM_CONSTRUCTION has one marked CONSTRUCTED or
\* FORWARD_IMPUTE_FROM_CONSTRUCTION, hence none marked RESPONSE,
\* FORWARD_IMPUTE_FROM_RESPONSE or BACKWARD_IMPUTE.
C25_MarkerChains ==
    pc = "done" =>
        \A k \in DOMAIN out :
            /\ out[k].marker = FORWARD_IMPUTE_FROM_RESPONSE =>
                /\ PreviousKey(k) \in DOMAIN df
                /\ df[PreviousKey(k)].marker \in {RESPONSE, FORWARD_IMPUTE_FROM_RESPONSE}
            /\ out[k].marker = FORWARD_IMPUTE_FROM_CONSTRUCTION =>
                /\ PreviousKey(k) \in DOMAIN df
                /\ df[PreviousKey(k)].marker \in
                        {CONSTRUCTED, FORWARD_IMPUTE_FROM_CONSTRUCTION}
                /\ df[PreviousKey(k)].marker \notin
                        {RESPONSE, FORWARD_IMPUTE_FROM_RESPONSE, BACKWARD_IMPUTE}

\* The ratio working set with the records that fail the link filter removed
Passing == {k \in Responded \cup BackResponses : PassesFilter(k)}
PassingForwardPairs(g) == {k \in Passing : GroupOf(k) = g /\ PreviousKey(k) \in Passing}
PassingBackwardPairs(g) == {k \in Passing : GroupOf(k) = g /\ NextKey(k) \in Passing}

\* SQL sum(a)/sum(b) over the rows K: null over no row or with a zero divisor
RatioOver(K, a, b) == IF K = {} THEN NULL ELSE Div(Total(K, a), Total(K, b))

\* C26: with a link filter, after the ratio calculation the forward,
\* backward and construction link of every record are those computed from
\* the records that pass the filter alone: a forward (backward) pair is a
\* passing record whose previous-period (next-period) record of the same
\* ref and grouping passes as well, and construction is taken over the
\* passing records of the group.
C26_FilteredLinks ==
    (pc = "stage" /\ stage = 1 /\ call.link_filter # None) =>
        \A k \in DOMAIN df :
            LET g == GroupOf(k)
                fp == PassingForwardPairs(g)
                bp == PassingBackwardPairs(g)
                K == Contributors(g)
            IN /\ df[k].forward =
                    RatioOver(fp, [x \in fp |-> ResponseValue(x)],
                                  [x \in fp |-> ResponseValue(PreviousKey(x))])
               /\ df[k].backward =
                    RatioOver(bp, [x \in bp |-> ResponseValue(x)],
                                  [x \in bp |-> ResponseValue(NextKey(x))])
               /\ df[k].construction =
                    RatioOver(K, [x \in K |-> ResponseValue(x)], [x \in K |-> AuxValue(x)])

\* One direction of the returned value of mean_of_ratios
Directions == {"forward", "backward"}
GrowthCount(d) ==
    Cardinality({k \in DOMAIN call.df : ~IsNull(result.value[d].growth[k])})
FilteredCount(d) ==
    Cardinality({k \in DOMAIN call.df : result.value[d].filtered[k] = BTRUE})

\* The ranks the trim bands leave, of count growth ratios
InBand(n, count) ==
    /\ lower_bound(count, call.params.lower_trim) <= n
    /\ n <= upper_bound(count, call.params.upper_trim)
Remaining(count) == Cardinality({n \in 1 .. count : InBand(n, count)})

\* Trimming is skipped: no growth ratio is flagged and the link is the mean
\* of all growth ratios
TrimmingSkipped(d) ==
    /\ \A k \in DOMAIN call.df :
          ~IsNull(result.value[d].growth[k]) => result.value[d].trimmed[k] = BFALSE
    /\ result.value[d].link = Untrimmed[d].link
    /\ result.value[d].count = Untrimmed[d].count

\* Trimming is applied: for some ranking of the growth ratios, those ranked
\* outside the bands are flagged and the link is the mean of the others
TrimmingApplied(d) ==
    LET K == DOMAIN call.df
        gro == result.value[d].growth
        tri == result.value[d].trimmed
        kept == [k \in K |-> IF tri[k] = BFALSE THEN gro[k] ELSE NULL]
    IN /\ \E num \in row_numbers(gro) :
            \A k \in K :
                ~IsNull(gro[k]) => tri[k] = SqlBool(~InBand(num[k], GrowthCount(d)))
       /\ result.value[d].link = SqlMean(K, kept)
       /\ result.value[d].count = SqlCount(K, kept)

TrimCall == pc = "returned" /\ call.fn = "mean_of_ratios" /\ call.params.trim

\* C27 (as claimed): with trim parameters, when the trim bands would leave
\* fewer than trim_threshold growth ratios of the group, trimming is skipped
\* for the group; otherwise the growth ratios ranked outside the bands are
\* excluded from the mean.
C27_TrimThreshold ==
    TrimCall =>
        \A d \in Directions :
            IF Remaining(GrowthCount(d)) < call.params.trim_threshold
            THEN TrimmingSkipped(d)
            ELSE TrimmingApplied(d)

\* C27 (amended): with trim parameters, when the number of growth ratios of
\* the group together with the number of its filtered pairs is at most
\* trim_threshold, trimming is skipped for the group; otherwise the growth
\* ratios ranked outside the bands are excluded from the mean, however few
\* are left.
C27_TrimThresholdCount ==
    TrimCall =>
        \A d \in Directions :
            IF GrowthCount(d) + FilteredCount(d) <= call.params.trim_threshold
            THEN TrimmingSkipped(d)
            ELSE TrimmingApplied(d)

\* C27 witness: two growth ratios in a group whose bands would exclude one
\* of them, and a threshold of 2: trimming is skipped, both ratios are in
\* the mean.
C27_Witness ==
    /\ TrimCall
    /\ call.params.trim_threshold = 2
    /\ GrowthCount("forward") = 2
    /\ FilteredCount("forward") = 0
    /\ Remaining(2) = 1
    /\ \A k \in DOMAIN call.df : result.value.forward.trimmed[k] = BFALSE
    /\ result.value.forward.count = Num(2)

\* The pairs of the group in one direction: the current row and its
\* previous (next) row both have an output and pass the link filter
OtherOutput(k, d) ==
    IF d = "forward" THEN call.df[k].previous_output ELSE call.df[k].next_output
OtherMatch(k, d) ==
    IF d = "forward" THEN call.df[k].link_inclusion_previous
    ELSE call.df[k].link_inclusion_next
IsPair(k, d) ==
    /\ call.df[k].link_inclusion_current = BTRUE
    /\ OtherMatch(k, d) = BTRUE
    /\ ~IsNull(OtherOutput(k, d))
ZerosOf(k, d) ==
    (IF IsZero(call.df[k].current_output) THEN 1 ELSE 0)
        + (IF IsZero(OtherOutput(k, d)) THEN 1 ELSE 0)

\* The pair of row k is in neither the mean nor the count of the link
Counted(d) ==
    {k \in DOMAIN call.df :
        ~IsNull(result.value[d].growth[k]) /\ result.value[d].trimmed[k] = BFALSE}
LinkOverCounted(d) ==
    /\ result.value[d].count = Num(Cardinality(Counted(d)))
    /\ result.value[d].link =
          SqlMean(Counted(d), [k \in Counted(d) |-> result.value[d].growth[k]])

\* A growth ratio is a quotient by a non-zero output, or the 1 given to a
\* pair with a zero
NoDivisionByZero(k, d) ==
    ~IsNull(result.value[d].growth[k]) =>
        IF ZerosOf(k, d) = 0
        THEN result.value[d].growth[k] = Div(call.df[k].current_output, OtherOutput(k, d))
        ELSE result.value[d].growth[k] = Num(1)

ZerosCall == pc = "returned" /\ call.fn = "mean_of_ratios" /\ ~call.params.include_zeros

\* C28 (as claimed): with include_zeros false, a pair with exactly one zero
\* among its two outputs has no growth ratio and is in neither the mean nor
\* the count of its group, a pair with two zeros has growth ratio 1, and
\* no growth ratio is a quotient by zero.
C28_ZeroPairs ==
    ZerosCall =>
        \A d \in Directions :
            /\ LinkOverCounted(d)
            /\ \A k \in DOMAIN call.df :
                /\ (IsPair(k, d) /\ ZerosOf(k, d) = 1) => IsNull(result.value[d].growth[k])
                /\ (IsPair(k, d) /\ ZerosOf(k, d) = 2) => result.value[d].growth[k] = Num(1)
                /\ NoDivisionByZero(k, d)

\* C28 (amended): with include_zeros false, a pair with a zero among its
\* two outputs, one or both, has no growth ratio and is in neither the mean
\* nor the count of its group, and no growth ratio is a quotient by zero.
C28_ZeroPairsExcluded ==
    ZerosCall =>
        \A d \in Directions :
            /\ LinkOverCounted(d)
            /\ \A k \in DOMAIN call.df :
                /\ (IsPair(k, d) /\ ZerosOf(k, d) >= 1) => IsNull(result.value[d].growth[k])
                /\ NoDivisionByZero(k, d)

\* C28 witness: include_zeros is false; one pair of the group has two zero
\* outputs and no growth ratio, another has none and is the only one in
\* the mean.
C28_Witness ==
    /\ ZerosCall
    /\ \E k \in DOMAIN call.df :
        /\ IsPair(k, "forward")
        /\ ZerosOf(k, "forward") = 2
        /\ IsNull(result.value.forward.growth[k])
    /\ \E k \in DOMAIN call.df :
        /\ IsPair(k, "forward")
        /\ ZerosOf(k, "forward") = 0
        /\ ~IsNull(result.value.forward.growth[k])
    /\ result.value.forward.count = Num(1)

\* C29 (as claimed): without link filter, for two adjacent periods of a
\* grouping whose pairs (a record with an output whose previous-period
\* record of the same ref and grouping has one) have a non-zero sum of
\* outputs in either period, the backward link of the earlier period times
\* the forward link of the later is 1, in the legacy imputation() as in the
\* engine.
C29_Reciprocal ==
    (pc = "returned" /\ call.fn \in {"impute", "imputation"} /\ call.link_filter = None) =>
        \A k, j \in DOMAIN df :
            LET fp == ForwardPairs(GroupOf(j))
            IN (/\ Grouping(k) = Grouping(j)
                /\ Period(j) = calculate_next_period(Period(k), Periodicity)
                /\ fp # {}
                /\ ~IsZero(SumTargets(fp))
                /\ ~IsZero(SumTargets({PreviousKey(x) : x \in fp})))
               => Mul(df[k].backward, df[j].forward) = Num(1)

\* A record of the table t has a marker exactly when it has an output
MarkerAgrees(t) ==
    \A k \in DOMAIN t : (t[k].marker # NOMARKER) <=> ~IsNull(t[k].output)

\* C30: whenever a step ends a stage (or the preparation, or the ratio
\* calculation) every record of the working table has a marker if and only
\* if it has an output, and so has every record of the returned table; and
\* no step changes the marker of a record that carries an imputation
\* marker.
C30_MarkerAndValue ==
    [][/\ pc' \in {"calculate_ratios", "stage", "output", "done"} => MarkerAgrees(df')
       /\ pc' = "done" => MarkerAgrees(out')
       /\ \A k \in DOMAIN df \cap DOMAIN df' :
            df[k].marker \in ImputationMarkers => df'[k].marker = df[k].marker]_vars

====
